---- MODULE Spec2Model ----
(***************************************************************************)
(* FastREST: the request dispatch engine (route table and matchPath, the   *)
(* middleware chain builder, the pooled request context, the auth          *)
(* middlewares, the metrics collector and App.handleRequest).              *)
(*                                                                         *)
(* A Go string is a sequence of one-character strings, so that             *)
(* strings.Split, strings.HasPrefix, slicing and fmt.Sprintf are computed  *)
(* character by character as the code computes them.                       *)
(***************************************************************************)
EXTENDS Integers, Sequences, FiniteSets, TLC

VARIABLES
    routes,          \* *Router.routes: the shared route table, in insertion order
    routers,         \* the Router objects (1 = App.router, the others made by Group)
    appMw,           \* App.middleware: a slice header [arr, len] into arrays
    arrays,          \* backing arrays of App.middleware (Len = capacity)
    script,          \* registrations main() still has to perform before Listen
    mode,            \* "script": main() registers, then serves; "free": any order
    metricsOn,       \* Config.Metrics (App.metrics # nil)
    crashed,         \* an unrecovered panic ended the process
    pool,            \* App.pool: the context objects available to Get
    ctxs,            \* every context object the pool's New has created
    req,             \* one record per serving goroutine (App.handleRequest)
    nslots,          \* how many goroutines serve requests concurrently
    dispatched,      \* number of requests the transport has handed over
    callers,         \* goroutines calling Metrics.IncRequestTotal directly
    shutdown,        \* App.Shutdown: where its goroutine stands
    requestTotal,    \* Metrics.requestTotal
    requestLatency,  \* Metrics.requestLatency
    errorTotal,      \* Metrics.errorTotal
    fnIn,            \* argument of the function under study (function specifications)
    fnOut            \* its result

vars == <<routes, routers, appMw, arrays, script, mode, metricsOn, crashed,
          pool, ctxs, req, nslots, dispatched, callers, shutdown,
          requestTotal, requestLatency, errorTotal, fnIn, fnOut>>

appVars == <<routes, routers, appMw, arrays, script, mode, metricsOn, crashed>>
poolVars == <<pool, ctxs>>
metricVars == <<requestTotal, requestLatency, errorTotal>>
fnVars == <<fnIn, fnOut>>
envVars == <<nslots, callers, shutdown>>

----------------------------------------------------------------------------
(* Bounds *)

MaxSegs == 3        \* segments of a generated pattern or path
MaxRoutes == 2      \* routes registered in the free-order specification
MaxReq == 2         \* goroutines serving concurrently
MaxDispatch == 3    \* requests handed over by the transport in one run
MaxGroups == 1      \* groups created in the free-order specification
MaxCallers == 3     \* goroutines calling IncRequestTotal concurrently
MaxHandlers == 3    \* handlers of a route in the chain specification
MaxMw == 2          \* middlewares around a route in the chain specification

----------------------------------------------------------------------------
(* Strings *)

Nil == "nil"

EmptyMap == [k \in {} |-> <<>>]

MapPut(m, k, v) == [x \in (DOMAIN m) \cup {k} |-> IF x = k THEN v ELSE m[x]]

RECURSIVE SplitFrom(_, _, _)
SplitFrom(s, i, cur) ==
    IF i > Len(s) THEN <<cur>>
    ELSE IF s[i] = "/" THEN <<cur>> \o SplitFrom(s, i + 1, <<>>)
    ELSE SplitFrom(s, i + 1, Append(cur, s[i]))

\* strings.Split(s, "/")
Split(s) == SplitFrom(s, 1, <<>>)

\* strings.HasPrefix(s, prefix)
HasPrefix(s, prefix) ==
    /\ Len(s) >= Len(prefix)
    /\ SubSeq(s, 1, Len(prefix)) = prefix

\* s[n:]
SliceFrom(s, n) == SubSeq(s, n + 1, Len(s))

\* strings.HasSuffix
HasSuffix(s, suffix) ==
    /\ Len(s) >= Len(suffix)
    /\ SubSeq(s, Len(s) - Len(suffix) + 1, Len(s)) = suffix

\* strings.TrimSuffix
TrimSuffix(s, suffix) ==
    IF HasSuffix(s, suffix) THEN SubSeq(s, 1, Len(s) - Len(suffix)) ELSE s

RECURSIVE Join(_)
\* strings.Join(parts, "/"): how a path is written from its segments
Join(parts) ==
    IF Len(parts) = 0 THEN <<>>
    ELSE IF Len(parts) = 1 THEN parts[1]
    ELSE parts[1] \o <<"/">> \o Join(Tail(parts))

----------------------------------------------------------------------------
(* router.go: matchPath *)

RECURSIVE matchPartsNonEmpty(_, _, _, _)
\* a match in which a parameter refuses the empty segment
matchPartsNonEmpty(patternParts, pathParts, i, params) ==
    IF i > Len(patternParts) THEN [ok |-> TRUE, params |-> params]
    ELSE IF HasPrefix(patternParts[i], <<":">>)
         THEN IF pathParts[i] = <<>>
              THEN [ok |-> FALSE, params |-> EmptyMap]
              ELSE matchPartsNonEmpty(patternParts, pathParts, i + 1,
                                      MapPut(params, SliceFrom(patternParts[i], 1),
                                             pathParts[i]))
    ELSE IF patternParts[i] # pathParts[i]
         THEN [ok |-> FALSE, params |-> EmptyMap]
    ELSE matchPartsNonEmpty(patternParts, pathParts, i + 1, params)

RECURSIVE matchParts(_, _, _, _)
matchParts(patternParts, pathParts, i, params) ==
    IF i > Len(patternParts) THEN [ok |-> TRUE, params |-> params]
    ELSE IF HasPrefix(patternParts[i], <<":">>)
         THEN matchParts(patternParts, pathParts, i + 1,
                         MapPut(params, SliceFrom(patternParts[i], 1), pathParts[i]))
    ELSE IF patternParts[i] # pathParts[i]
         THEN [ok |-> FALSE, params |-> EmptyMap]
    ELSE matchParts(patternParts, pathParts, i + 1, params)

\* matchPath with the length test loosened to "the path is not shorter"
matchPathLonger(pattern, path) ==
    LET patternParts == Split(pattern)
        pathParts == Split(path)
    IN  IF Len(patternParts) > Len(pathParts)
        THEN [ok |-> FALSE, params |-> EmptyMap]
        ELSE matchParts(patternParts, pathParts, 1, EmptyMap)

\* s without one trailing "/" (the root "/" is kept)
TrimSlash(s) ==
    IF Len(s) > 1 /\ s[Len(s)] = "/" THEN SubSeq(s, 1, Len(s) - 1) ELSE s

\* a match that normalises a trailing slash away on both sides
matchPathTrimSlash(pattern, path) ==
    LET patternParts == Split(TrimSlash(pattern))
        pathParts == Split(TrimSlash(path))
    IN  IF Len(patternParts) # Len(pathParts)
        THEN [ok |-> FALSE, params |-> EmptyMap]
        ELSE matchParts(patternParts, pathParts, 1, EmptyMap)

matchPath(pattern, path) ==
    LET patternParts == Split(pattern)
        pathParts == Split(path)
    IN  IF Len(patternParts) # Len(pathParts)
        THEN [ok |-> FALSE, params |-> EmptyMap]
        ELSE matchParts(patternParts, pathParts, 1, EmptyMap)

----------------------------------------------------------------------------
(* encoding/base64 and strings, as the auth middlewares use them *)

\* the characters with codes 32..126, in code order (code 96 is written \96)
AsciiChars == <<" ", "!", "\"", "#", "$", "%", "&", "'", "(", ")", "*", "+", ",", "-", ".", "/", "0", "1", "2", "3", "4", "5", "6", "7", "8", "9", ":", ";", "<", "=", ">", "?", "@", "A", "B", "C", "D", "E", "F", "G", "H", "I", "J", "K", "L", "M", "N", "O", "P", "Q", "R", "S", "T", "U", "V", "W", "X", "Y", "Z", "[", "\\", "]", "^", "_", "\\96", "a", "b", "c", "d", "e", "f", "g", "h", "i", "j", "k", "l", "m", "n", "o", "p", "q", "r", "s", "t", "u", "v", "w", "x", "y", "z", "{", "|", "}", "~">>

\* string(byte): a byte outside 32..126 is written \<code>
Chr(b) == IF b >= 32 /\ b <= 126 THEN AsciiChars[b - 31] ELSE "\\" \o ToString(b)

B64Alphabet == <<"A", "B", "C", "D", "E", "F", "G", "H", "I", "J", "K", "L", "M", "N", "O", "P", "Q", "R", "S", "T", "U", "V", "W", "X", "Y", "Z", "a", "b", "c", "d", "e", "f", "g", "h", "i", "j", "k", "l", "m", "n", "o", "p", "q", "r", "s", "t", "u", "v", "w", "x", "y", "z", "0", "1", "2", "3", "4", "5", "6", "7", "8", "9", "+", "/">>

IsB64(ch) == \E i \in 1..Len(B64Alphabet) : B64Alphabet[i] = ch

B64Val(ch) == (CHOOSE i \in 1..Len(B64Alphabet) : B64Alphabet[i] = ch) - 1

\* one 4-character quantum; padding is accepted in the last quantum only
DecodeQuantum(q, last) ==
    IF IsB64(q[1]) /\ IsB64(q[2]) /\ IsB64(q[3]) /\ IsB64(q[4])
    THEN LET v == B64Val(q[1]) * 262144 + B64Val(q[2]) * 4096
                  + B64Val(q[3]) * 64 + B64Val(q[4])
         IN  [ok |-> TRUE, bytes |-> <<v \div 65536, (v \div 256) % 256, v % 256>>]
    ELSE IF last /\ IsB64(q[1]) /\ IsB64(q[2]) /\ IsB64(q[3]) /\ q[4] = "="
    THEN LET v == B64Val(q[1]) * 262144 + B64Val(q[2]) * 4096 + B64Val(q[3]) * 64
         IN  [ok |-> TRUE, bytes |-> <<v \div 65536, (v \div 256) % 256>>]
    ELSE IF last /\ IsB64(q[1]) /\ IsB64(q[2]) /\ q[3] = "=" /\ q[4] = "="
    THEN LET v == B64Val(q[1]) * 262144 + B64Val(q[2]) * 4096
         IN  [ok |-> TRUE, bytes |-> <<v \div 65536>>]
    ELSE [ok |-> FALSE, bytes |-> <<>>]

RECURSIVE DecodeFrom(_, _)
DecodeFrom(s, i) ==
    IF i > Len(s) THEN [ok |-> TRUE, bytes |-> <<>>]
    ELSE LET q == DecodeQuantum(SubSeq(s, i, i + 3), i + 3 = Len(s))
             rest == DecodeFrom(s, i + 4)
         IN  IF q.ok /\ rest.ok
             THEN [ok |-> TRUE, bytes |-> q.bytes \o rest.bytes]
             ELSE [ok |-> FALSE, bytes |-> <<>>]

\* base64.StdEncoding.DecodeString(s), read back as a string
DecodeString(s) ==
    IF Len(s) % 4 # 0 THEN [ok |-> FALSE, str |-> <<>>]
    ELSE LET d == DecodeFrom(s, 1)
         IN  [ok |-> d.ok, str |-> [i \in 1..Len(d.bytes) |-> Chr(d.bytes[i])]]

\* strings.SplitN(s, ":", 2)
SplitN2(s) ==
    IF \E i \in 1..Len(s) : s[i] = ":"
    THEN LET k == CHOOSE i \in 1..Len(s) :
                      s[i] = ":" /\ \A j \in 1..(i - 1) : s[j] # ":"
         IN  <<SubSeq(s, 1, k - 1), SubSeq(s, k + 1, Len(s))>>
    ELSE <<s>>

----------------------------------------------------------------------------
(* context/context.go: Ctx, AuthInfo and the response helpers.             *)
(* A call state c carries the Ctx fields (Params, Locals, Auth), the       *)
(* request headers and the response of the embedded RequestCtx, the        *)
(* observation log and the result (err) of the call that produced it.      *)

\* (*AuthInfo)(nil)
NoAuth == [Type |-> "nil", Value |-> <<>>, Username |-> <<>>, Password |-> <<>>,
           Valid |-> FALSE]

AuthInfo(type, value, username, password) ==
    [Type |-> type, Value |-> value, Username |-> username, Password |-> password,
     Valid |-> TRUE]

StatusOK == 200
StatusBadRequest == 400
StatusUnauthorized == 401
StatusNotFound == 404
StatusInternalServerError == 500

\* Ctx.Get: Request.Header.Peek(key), "" when the header is absent
Get(c, key) == IF key \in DOMAIN c.headers THEN c.headers[key] ELSE <<>>

\* Ctx.Set
Set(c, key, value) == [c EXCEPT !.respHdr = MapPut(c.respHdr, key, value)]

\* Ctx.Status
Status(c, code) == [c EXCEPT !.statusCode = code]

\* Ctx.JSON: content type, status code, body; json.Marshal of the values the
\* dispatcher and the middlewares pass (maps of strings) does not fail
JSON(c, status, v) ==
    [Set(c, "Content-Type", "application/json")
        EXCEPT !.statusCode = status, !.body = v, !.err = "nil"]

\* a response body: map[string]string{"error": msg}, or a payload
NoBody == [kind |-> "none", msg |-> "", data |-> <<>>]

ErrorBody(msg) == [kind |-> "error", msg |-> msg, data |-> <<>>]

DataBody(msg, data) == [kind |-> "data", msg |-> msg, data |-> data]

\* an Unauthorized that returns an error after writing the response
UnauthorizedAsError(c, msg) ==
    [JSON(c, StatusUnauthorized, ErrorBody(msg)) EXCEPT !.err = "error"]

Unauthorized(c, msg) == JSON(c, StatusUnauthorized, ErrorBody(msg))

BadRequest(c, msg) == JSON(c, StatusBadRequest, ErrorBody(msg))

SetAuth(c, auth) == [c EXCEPT !.Auth = auth, !.log = Append(c.log, <<"SetAuth", auth.Type>>)]

GetAuth(c) == c.Auth

SetLocal(c, key, value) == [c EXCEPT !.Locals = MapPut(c.Locals, key, value)]

Param(c, key) == IF key \in DOMAIN c.Params THEN c.Params[key] ELSE <<>>

\* fasthttp's Response.StatusCode(): a response whose status code was never set
\* reports 200 (the library's ResponseHeader.StatusCode returns StatusOK for 0)
StatusCode(c) == IF c.statusCode = 0 THEN StatusOK ELSE c.statusCode

----------------------------------------------------------------------------
(* Handlers and middleware.  A composed handler is a term:                 *)
(*   [kind |-> "h", name]          a handler the caller registered         *)
(*   [kind |-> "seq", h, next]     the closure of buildChain's first loop  *)
(*   [kind |-> "nil"]              the closure returned for no handlers    *)
(*   [kind |-> "mw", name, next]   a middleware applied to a handler       *)
(* Call(t, c) runs the term on call state c; its err is "nil", "error",    *)
(* "panic" (a panic unwinds every frame above it) or "block" (the handler  *)
(* never returns, so no frame above it does).                              *)

RECURSIVE Call(_, _)

Logged(c, kind, name) == [c EXCEPT !.log = Append(c.log, <<kind, name>>)]

\* the validators the application passes (the spec's scenario, main's groups)
BasicValidator(username, password) ==
    /\ username = <<"a", "d", "m", "i", "n">>
    /\ password = <<"s", "e", "c", "r", "e", "t">>

BearerValidator(token) == token = <<"t", "o", "k">>

APIKeyValidator(key) == key = <<"k", "e", "y", "1">>

BasicPrefix == <<"B", "a", "s", "i", "c", " ">>

BearerPrefix == <<"B", "e", "a", "r", "e", "r", " ">>

\* BasicAuth that answers 401 and then goes on to the wrapped handler
BasicAuthFallThrough(next, c) ==
    LET auth == Get(c, "Authorization")
    IN  IF auth = <<>>
        THEN Call(next, Unauthorized(Set(c, "WWW-Authenticate", "Basic realm=\"Restricted\""),
                                     "missing authorization header"))
        ELSE IF ~HasPrefix(auth, BasicPrefix)
        THEN Call(next, Unauthorized(c, "invalid authorization type"))
        ELSE LET decoded == DecodeString(SliceFrom(auth, 6))
             IN  IF ~decoded.ok
                 THEN Call(next, Unauthorized(c, "invalid base64 encoding"))
                 ELSE LET parts == SplitN2(decoded.str)
                      IN  IF Len(parts) # 2
                          THEN Call(next, Unauthorized(c, "invalid credentials format"))
                          ELSE IF ~BasicValidator(parts[1], parts[2])
                          THEN Call(next, Unauthorized(c, "invalid credentials"))
                          ELSE Call(next,
                                    SetAuth(c, AuthInfo("basic", <<>>, parts[1], parts[2])))

\* BasicAuth answering a missing header without the WWW-Authenticate challenge
BasicAuthNoChallenge(next, c) ==
    LET auth == Get(c, "Authorization")
    IN  IF auth = <<>>
        THEN Unauthorized(c, "missing authorization header")
        ELSE IF ~HasPrefix(auth, BasicPrefix)
        THEN Unauthorized(c, "invalid authorization type")
        ELSE LET decoded == DecodeString(SliceFrom(auth, 6))
             IN  IF ~decoded.ok
                 THEN Unauthorized(c, "invalid base64 encoding")
                 ELSE LET parts == SplitN2(decoded.str)
                      IN  IF Len(parts) # 2
                          THEN Unauthorized(c, "invalid credentials format")
                          ELSE IF ~BasicValidator(parts[1], parts[2])
                          THEN Unauthorized(c, "invalid credentials")
                          ELSE Call(next,
                                    SetAuth(c, AuthInfo("basic", <<>>, parts[1], parts[2])))

\* BasicAuth without the validator's verdict
BasicAuthUnchecked(next, c) ==
    LET auth == Get(c, "Authorization")
    IN  IF auth = <<>>
        THEN Unauthorized(Set(c, "WWW-Authenticate", "Basic realm=\"Restricted\""),
                          "missing authorization header")
        ELSE IF ~HasPrefix(auth, BasicPrefix)
        THEN Unauthorized(c, "invalid authorization type")
        ELSE LET decoded == DecodeString(SliceFrom(auth, 6))
             IN  IF ~decoded.ok
                 THEN Unauthorized(c, "invalid base64 encoding")
                 ELSE LET parts == SplitN2(decoded.str)
                      IN  IF Len(parts) # 2
                          THEN Unauthorized(c, "invalid credentials format")
                          ELSE Call(next,
                                    SetAuth(c, AuthInfo("basic", <<>>, parts[1], parts[2])))

\* middlewares.BasicAuth(validator)(next)(c)
BasicAuth(next, c) ==
    LET auth == Get(c, "Authorization")
    IN  IF auth = <<>>
        THEN Unauthorized(Set(c, "WWW-Authenticate", "Basic realm=\"Restricted\""),
                          "missing authorization header")
        ELSE IF ~HasPrefix(auth, BasicPrefix)
        THEN Unauthorized(c, "invalid authorization type")
        ELSE LET decoded == DecodeString(SliceFrom(auth, 6))
             IN  IF ~decoded.ok
                 THEN Unauthorized(c, "invalid base64 encoding")
                 ELSE LET parts == SplitN2(decoded.str)
                      IN  IF Len(parts) # 2
                          THEN Unauthorized(c, "invalid credentials format")
                          ELSE IF ~BasicValidator(parts[1], parts[2])
                          THEN Unauthorized(c, "invalid credentials")
                          ELSE Call(next,
                                    SetAuth(c, AuthInfo("basic", <<>>, parts[1], parts[2])))

\* middlewares.BearerAuth(validator)(next)(c)
BearerAuth(next, c) ==
    LET auth == Get(c, "Authorization")
    IN  IF auth = <<>>
        THEN Unauthorized(c, "missing authorization header")
        ELSE IF ~HasPrefix(auth, BearerPrefix)
        THEN Unauthorized(c, "invalid authorization type")
        ELSE LET token == SliceFrom(auth, 7)
             IN  IF ~BearerValidator(token)
                 THEN Unauthorized(c, "invalid token")
                 ELSE Call(next, SetAuth(c, AuthInfo("bearer", token, <<>>, <<>>)))

\* middlewares.APIKeyAuth(validator, headerName)(next)(c)
APIKeyAuth(headerName, next, c) ==
    LET name == IF headerName = "" THEN "X-API-Key" ELSE headerName
        key == Get(c, name)
    IN  IF key = <<>>
        THEN Unauthorized(c, "missing API key")
        ELSE IF ~APIKeyValidator(key)
        THEN Unauthorized(c, "invalid API key")
        ELSE Call(next, SetAuth(c, AuthInfo("apikey", key, <<>>, <<>>)))

\* a middleware that appends its identifier to the observation log before and
\* after calling its inner handler, and returns the inner handler's result
LoggingMiddleware(id, next, c) ==
    LET inner == Call(next, Logged(c, "before", id))
    IN  IF inner.err = "panic" THEN inner ELSE Logged(inner, "after", id)

\* NewAuthConfig() with the validators the application sets: the name of the
\* combined strategy tells which of them are configured (non-nil)
AuthConfigOf(name) ==
    [APIKeyName |-> "X-API-Key",
     APIKeyValidator |-> name \in {"Auth", "AuthNoBearer", "AuthKeyBearer", "AuthKeyOnly"},
     BearerValidator |-> name \in {"Auth", "AuthNoKey", "AuthKeyBearer", "AuthBearerOnly"},
     BasicValidator |-> name \in {"Auth", "AuthNoKey", "AuthNoBearer", "AuthBasicOnly"}]

\* Auth: the branch taken when the API key header is non-empty and a key
\* validator is configured
AuthByKey(config, next, c) ==
    LET apiKey == Get(c, config.APIKeyName)
    IN  IF APIKeyValidator(apiKey)
        THEN Call(next, SetAuth(c, AuthInfo("apikey", apiKey, <<>>, <<>>)))
        ELSE Unauthorized(c, "invalid API key")

\* the branches on the Authorization header taken whether or not their
\* validator is configured
AuthByHeaderIgnoringNil(config, next, c) ==
    LET auth == Get(c, "Authorization")
    IN  IF auth = <<>>
        THEN Unauthorized(Set(c, "WWW-Authenticate", "Basic realm=\"Restricted\""),
                          "missing authorization")
        ELSE IF HasPrefix(auth, BearerPrefix)
        THEN LET token == SliceFrom(auth, 7)
             IN  IF BearerValidator(token)
                 THEN Call(next, SetAuth(c, AuthInfo("bearer", token, <<>>, <<>>)))
                 ELSE Unauthorized(c, "invalid token")
        ELSE IF HasPrefix(auth, BasicPrefix)
        THEN LET decoded == DecodeString(SliceFrom(auth, 6))
             IN  IF ~decoded.ok
                 THEN Unauthorized(c, "invalid base64 encoding")
                 ELSE LET parts == SplitN2(decoded.str)
                      IN  IF Len(parts) # 2
                          THEN Unauthorized(c, "invalid credentials format")
                          ELSE IF BasicValidator(parts[1], parts[2])
                          THEN Call(next,
                                    SetAuth(c, AuthInfo("basic", <<>>, parts[1], parts[2])))
                          ELSE Unauthorized(c, "invalid credentials")
        ELSE Unauthorized(c, "invalid authorization")

\* Auth: the branches on the Authorization header
AuthByHeader(config, next, c) ==
    LET auth == Get(c, "Authorization")
    IN  IF auth = <<>>
        THEN Unauthorized(Set(c, "WWW-Authenticate", "Basic realm=\"Restricted\""),
                          "missing authorization")
        ELSE IF HasPrefix(auth, BearerPrefix) /\ config.BearerValidator
        THEN LET token == SliceFrom(auth, 7)
             IN  IF BearerValidator(token)
                 THEN Call(next, SetAuth(c, AuthInfo("bearer", token, <<>>, <<>>)))
                 ELSE Unauthorized(c, "invalid token")
        ELSE IF HasPrefix(auth, BasicPrefix) /\ config.BasicValidator
        THEN LET decoded == DecodeString(SliceFrom(auth, 6))
             IN  IF ~decoded.ok
                 THEN Unauthorized(c, "invalid base64 encoding")
                 ELSE LET parts == SplitN2(decoded.str)
                      IN  IF Len(parts) # 2
                          THEN Unauthorized(c, "invalid credentials format")
                          ELSE IF BasicValidator(parts[1], parts[2])
                          THEN Call(next,
                                    SetAuth(c, AuthInfo("basic", <<>>, parts[1], parts[2])))
                          ELSE Unauthorized(c, "invalid credentials")
        ELSE Unauthorized(c, "invalid authorization")

\* Auth with the Authorization header looked at before the API key
AuthHeaderFirst(config, next, c) ==
    IF Get(c, "Authorization") # <<>>
    THEN AuthByHeader(config, next, c)
    ELSE IF Get(c, config.APIKeyName) # <<>> /\ config.APIKeyValidator
    THEN AuthByKey(config, next, c)
    ELSE AuthByHeader(config, next, c)

\* middlewares.Auth(config)(next)(c)
Auth(config, next, c) ==
    IF Get(c, config.APIKeyName) # <<>> /\ config.APIKeyValidator
    THEN AuthByKey(config, next, c)
    ELSE AuthByHeader(config, next, c)

CombinedStrategies ==
    {"Auth", "AuthNoKey", "AuthNoBearer", "AuthBasicOnly",
     "AuthKeyBearer", "AuthKeyOnly", "AuthBearerOnly", "AuthNone"}

Middleware(name, next, c) ==
    CASE name = "BasicAuth" -> BasicAuth(next, c)
      [] name \in CombinedStrategies -> Auth(AuthConfigOf(name), next, c)
      [] name = "BearerAuth" -> BearerAuth(next, c)
      [] name = "APIKeyAuth" -> APIKeyAuth("X-API-Key", next, c)
      [] name = "APIKeyAuthDefault" -> APIKeyAuth("", next, c)
      [] name = "Deny" ->
            \* a middleware that returns an error instead of calling next
            [Logged(c, "deny", name) EXCEPT !.err = "error"]
      [] OTHER -> LoggingMiddleware(name, next, c)

\* the handlers the application registers
Handler(name, c0) ==
    LET c == Logged(c0, "handler", name)
    IN  CASE name = "hProfile" ->
                \* auth := c.GetAuth(); ... auth.Username: a nil auth panics
                IF GetAuth(c) = NoAuth
                THEN [c EXCEPT !.err = "panic"]
                ELSE JSON(c, StatusOK, DataBody("username", GetAuth(c).Username))
          [] name = "hParam" ->
                JSON(c, StatusOK, DataBody("id", Param(c, <<"i", "d">>)))
          [] name = "hWrite" ->
                \* c.SetLocal("k", "v"); c.Params["extra"] = "v"
                JSON([SetLocal(c, <<"k">>, <<"v">>)
                         EXCEPT !.Params = MapPut(c.Params, <<"e", "x", "t", "r", "a">>, <<"v">>)],
                     StatusOK, DataBody("written", <<>>))
          [] name = "hFail" ->
                \* return errors.New(...) with the response untouched
                [c EXCEPT !.err = "error"]
          [] name = "hBad" ->
                \* c.Status(400) and the body written, then return errors.New(...)
                [BadRequest(c, "bad request") EXCEPT !.err = "error"]
          [] name = "hCreated" ->
                JSON(c, 201, DataBody("created", <<>>))
          [] name = "hNone" ->
                \* return nil with the response untouched
                c
          [] name = "hBlock" ->
                \* select {}: the handler never returns
                [c EXCEPT !.err = "block"]
          [] OTHER -> JSON(c, StatusOK, DataBody("ok", <<>>))

\* the closures of buildChain's first loop going on after a failure
CallIgnoringFailure(t, c) ==
    CASE t.kind = "nil" -> [c EXCEPT !.err = "nil"]
      [] t.kind = "h" -> Handler(t.name, c)
      [] t.kind = "seq" -> Call(t.next, Handler(t.h, c))
      [] t.kind = "mw" -> Middleware(t.name, t.next, c)

Call(t, c) ==
    CASE t.kind = "nil" -> [c EXCEPT !.err = "nil"]
      [] t.kind = "h" -> Handler(t.name, c)
      [] t.kind = "seq" ->
            LET first == Handler(t.h, c)
            IN  IF first.err # "nil" THEN first ELSE Call(t.next, first)
      [] t.kind = "mw" -> Middleware(t.name, t.next, c)

----------------------------------------------------------------------------
(* App.buildChain *)

RECURSIVE foldHandlers(_, _, _)
\* for i := len(handlers) - 2; i >= 0; i-- { final = func ... }
foldHandlers(handlers, i, final) ==
    IF i < 1 THEN final
    ELSE foldHandlers(handlers, i - 1, [kind |-> "seq", h |-> handlers[i], next |-> final])

RECURSIVE wrapMiddlewareForward(_, _, _)
\* the wrapping loop run from the first middleware to the last
wrapMiddlewareForward(allMiddleware, i, final) ==
    IF i < 1 THEN final
    ELSE wrapMiddlewareForward(allMiddleware, i - 1,
                               [kind |-> "mw",
                                name |-> allMiddleware[Len(allMiddleware) - i + 1],
                                next |-> final])

RECURSIVE wrapMiddleware(_, _, _)
\* for i := len(allMiddleware) - 1; i >= 0; i-- { final = allMiddleware[i](final) }
wrapMiddleware(allMiddleware, i, final) ==
    IF i < 1 THEN final
    ELSE wrapMiddleware(allMiddleware, i - 1,
                        [kind |-> "mw", name |-> allMiddleware[i], next |-> final])

\* buildChain once allMiddleware = append(a.middleware, routeMiddleware...) is read
buildChain(handlers, allMiddleware) ==
    IF Len(handlers) = 0
    THEN [kind |-> "nil"]
    ELSE wrapMiddleware(allMiddleware, Len(allMiddleware),
                        foldHandlers(handlers, Len(handlers) - 1,
                                     [kind |-> "h", name |-> handlers[Len(handlers)]]))

----------------------------------------------------------------------------
(* Slices: App.middleware and the result of append in buildChain.          *)
(* A slice is [arr, len, priv]: arr > 0 names a backing array of arrays    *)
(* (its capacity is the array's length); arr = 0 is an array no other      *)
(* slice refers to, kept by value in priv.                                 *)

NilSlot == "nil"

Cap(slice, arrs) == IF slice.arr = 0 THEN Len(slice.priv) ELSE Len(arrs[slice.arr])

Elems(slice, arrs) ==
    IF slice.arr = 0 THEN SubSeq(slice.priv, 1, slice.len)
    ELSE SubSeq(arrs[slice.arr], 1, slice.len)

\* capacities the allocator's size classes give a slice of pointer-sized elements
SizeClassCaps == {1, 2, 3, 4, 6, 8, 10, 12, 14, 16}

\* the capacity append gives the new array (runtime growslice of the gc toolchain)
GrowCap(oldCap, newLen) ==
    LET want == IF newLen > 2 * oldCap THEN newLen ELSE 2 * oldCap
    IN  CHOOSE k \in SizeClassCaps :
            k >= want /\ \A j \in SizeClassCaps : j >= want => k <= j

\* append(slice, elems...), its writes into a shared backing array included
AppendSlice(slice, arrs, elems, keep) ==
    LET n == slice.len + Len(elems)
    IN  IF Len(elems) = 0
        THEN [slice |-> slice, arrays |-> arrs]
        ELSE IF n <= Cap(slice, arrs)
        THEN \* room in the backing array: the elements are written in place
             [slice |-> [slice EXCEPT !.len = n],
              arrays |-> [arrs EXCEPT ![slice.arr] =
                             [i \in 1..Len(@) |->
                                 IF i > slice.len /\ i <= n
                                 THEN elems[i - slice.len] ELSE @[i]]]]
        ELSE LET newCap == GrowCap(Cap(slice, arrs), n)
                 fresh == [i \in 1..newCap |->
                              IF i <= slice.len THEN Elems(slice, arrs)[i]
                              ELSE IF i <= n THEN elems[i - slice.len]
                              ELSE NilSlot]
             IN  IF keep
                 THEN [slice |-> [arr |-> Len(arrs) + 1, len |-> n, priv |-> <<>>],
                       arrays |-> Append(arrs, fresh)]
                 ELSE [slice |-> [arr |-> 0, len |-> n, priv |-> fresh],
                       arrays |-> arrs]

----------------------------------------------------------------------------
(* router.go: Router.Group, Router.Use, Router.add, Router.find *)

NewRouter(prefix) == [prefix |-> prefix, middleware |-> <<>>]

\* a Group that starts from its own prefix instead of the parent's
GroupOfFlat(r, prefix) ==
    [prefix |-> prefix, middleware |-> r.middleware]

\* Router.Group: the prefix accumulates, the middleware list is copied
GroupOf(r, prefix) ==
    [prefix |-> r.prefix \o prefix, middleware |-> r.middleware]

\* Router.Use
RouterUseOf(r, mw) == [r EXCEPT !.middleware = @ \o mw]

\* the Route that Router.add builds
\* a route whose pattern leaves the group's prefix out
RouteOfNoPrefix(r, method, path, handlers) ==
    [Method |-> method, Path |-> path, Handlers |-> handlers,
     middleware |-> r.middleware]

\* a route that takes no middleware from its group
RouteOfBare(r, method, path, handlers) ==
    [Method |-> method, Path |-> r.prefix \o path, Handlers |-> handlers,
     middleware |-> <<>>]

RouteOf(r, method, path, handlers) ==
    [Method |-> method, Path |-> r.prefix \o path, Handlers |-> handlers,
     middleware |-> r.middleware]

RECURSIVE findFromAnyMethod(_, _, _, _)
\* a scan that does not compare the method
findFromAnyMethod(rts, i, method, path) ==
    IF i > Len(rts) THEN [route |-> 0, params |-> EmptyMap]
    ELSE LET m == matchPath(rts[i].Path, path)
         IN  IF m.ok THEN [route |-> i, params |-> m.params]
             ELSE findFromAnyMethod(rts, i + 1, method, path)

RECURSIVE findFrom(_, _, _, _)
findFrom(rts, i, method, path) ==
    IF i > Len(rts) THEN [route |-> 0, params |-> EmptyMap]
    ELSE IF rts[i].Method # method THEN findFrom(rts, i + 1, method, path)
    ELSE LET m == matchPath(rts[i].Path, path)
         IN  IF m.ok THEN [route |-> i, params |-> m.params]
             ELSE findFrom(rts, i + 1, method, path)

\* find returning the last route that matches
findLast(rts, method, path) ==
    LET S == {i \in 1..Len(rts) :
                 rts[i].Method = method /\ matchPath(rts[i].Path, path).ok}
    IN  IF S = {} THEN [route |-> 0, params |-> EmptyMap]
        ELSE LET i == CHOOSE k \in S : \A j \in S : j <= k
             IN  [route |-> i, params |-> matchPath(rts[i].Path, path).params]

\* Router.find: the route is named by its index in the table, 0 is nil
find(rts, method, path) == findFrom(rts, 1, method, path)

----------------------------------------------------------------------------
(* metrics/metrics.go *)

Underscore == <<"_">>

BucketSuffix == <<"_", "b", "u", "c", "k", "e", "t">>

NotFoundKind == <<"n", "o", "t", "_", "f", "o", "u", "n", "d">>

HandlerErrorKind == <<"h", "a", "n", "d", "l", "e", "r", "_", "e", "r", "r", "o", "r">>

RECURSIVE Itoa(_)
\* the %d of fmt.Sprintf, for n >= 0
Itoa(n) ==
    IF n < 10 THEN <<AsciiChars[n + 17]>>
    ELSE Itoa(n \div 10) \o <<AsciiChars[(n % 10) + 17]>>

\* fmt.Sprintf("%s_%s_%d", method, path, status)
RequestKey(method, path, status) ==
    method \o Underscore \o path \o Underscore \o Itoa(status)

\* fmt.Sprintf("%s_%s", method, path)
LatencyKey(method, path) == method \o Underscore \o path

\* fmt.Sprintf("%s_%s_%s", method, path, errorType)
ErrorKey(method, path, errorType) ==
    method \o Underscore \o path \o Underscore \o errorType

\* a Store in the place of LoadOrStore: the key gets the new value whatever
\* it held
StoreFresh(m, key, new) == MapPut(m, key, new)

\* sync.Map.LoadOrStore(key, new): the key keeps the value it has, or gets new
LoadOrStore(m, key, new) == IF key \in DOMAIN m THEN m ELSE MapPut(m, key, new)

\* atomic.AddInt64 on the int64 the key holds
\* an add of the negated delta, as DecActiveConns does to its gauge
SubInt64(m, key, delta) == [m EXCEPT ![key] = @ - delta]

AddInt64(m, key, delta) == [m EXCEPT ![key] = @ + delta]

\* LoadOrStore(key, new(int64)) then atomic.AddInt64(val, 1)
IncCounter(m, key) == AddInt64(LoadOrStore(m, key, 0), key, 1)

IncRequestTotal(m, method, path, status) ==
    IncCounter(m, RequestKey(method, path, status))

IncError(m, method, path, errorType) ==
    IncCounter(m, ErrorKey(method, path, errorType))

MutexEntry == [kind |-> "mutex", sum |-> 0, count |-> 0]

BucketEntry(sum, count) == [kind |-> "bucket", sum |-> sum, count |-> count]

\* Metrics.ObserveLatency: one map holds the key's mutex under key and its
\* accumulator under key + "_bucket"; a type assertion on an entry of the other
\* kind panics
ObserveLatency(m, method, path, ms) ==
    LET key == LatencyKey(method, path)
        m1 == IF key \in DOMAIN m THEN m ELSE MapPut(m, key, MutexEntry)
        bucketKey == key \o BucketSuffix
        m2 == IF bucketKey \in DOMAIN m1 THEN m1
              ELSE MapPut(m1, bucketKey, BucketEntry(0, 0))
    IN  IF m1[key].kind # "mutex"
        THEN [m |-> m, panic |-> TRUE]
        ELSE IF m2[bucketKey].kind # "bucket"
        THEN [m |-> m1, panic |-> TRUE]
        ELSE [m |-> [m2 EXCEPT ![bucketKey] = BucketEntry(@.sum + ms, @.count + 1)],
              panic |-> FALSE]

RECURSIVE Gcd(_, _)
Gcd(a, b) == IF b = 0 THEN a ELSE Gcd(b, a % b)

\* bucket.sum / float64(bucket.count) for count > 0: the quotient as a
\* fraction in lowest terms (sums and counts are small whole numbers, which
\* float64 holds exactly, so two quotients are equal floats iff equal fractions)
Mean(sum, count) ==
    [num |-> sum \div Gcd(sum, count), den |-> count \div Gcd(sum, count)]

\* ToJSON, lines 179-188: the Range over requestLatency.  Every entry whose key
\* ends in "_bucket" is asserted to be a *LatencyBucket (a panic otherwise);
\* one with count > 0 is reported under the key without the suffix
ToJSONLatencies(lat) ==
    LET suffixed == {k \in DOMAIN lat : HasSuffix(k, BucketSuffix)}
        shown == {k \in suffixed : lat[k].kind = "bucket" /\ lat[k].count > 0}
        base == {TrimSuffix(k, BucketSuffix) : k \in shown}
    IN  IF \E k \in suffixed : lat[k].kind # "bucket"
        THEN [panic |-> TRUE, latencies |-> EmptyMap]
        ELSE [panic |-> FALSE,
              latencies |-> [b \in base |->
                               Mean(lat[b \o BucketSuffix].sum, lat[b \o BucketSuffix].count)]]

\* ToJSON, lines 159-196: the three groups of the snapshot.  Requests and
\* Errors copy every counter under its key; a panic of the latency Range ends
\* the call
ToJSON(rt, lat, et) ==
    LET l == ToJSONLatencies(lat)
    IN  [panic |-> l.panic,
         Requests |-> IF l.panic THEN EmptyMap ELSE [k \in DOMAIN rt |-> rt[k]],
         Errors |-> IF l.panic THEN EmptyMap ELSE [k \in DOMAIN et |-> et[k]],
         Latencies |-> l.latencies]

\* strings.SplitN(s, sep, n) for a one-character separator: at most n parts,
\* the last one holding the unsplit remainder
RECURSIVE SplitN(_, _, _)
SplitN(s, sep, n) ==
    IF n = 1 \/ ~\E i \in 1..Len(s) : s[i] = sep
    THEN <<s>>
    ELSE LET k == CHOOSE i \in 1..Len(s) :
                      s[i] = sep /\ \A j \in 1..(i - 1) : s[j] # sep
         IN  <<SubSeq(s, 1, k - 1)>> \o SplitN(SubSeq(s, k + 1, Len(s)), sep, n - 1)

\* a %.2f of sum / count that cuts the third decimal off instead of rounding
Truncate2f(sum, count) == (100 * sum) \div count

\* fmt.Sprintf("%.2f", sum / float64(count)): the number printed, in
\* hundredths.  The quotient is rounded to two decimals, a tie going to the
\* even hundredth
Sprintf2f(sum, count) ==
    LET q == (100 * sum) \div count
        r == (100 * sum) % count
    IN  IF 2 * r > count THEN q + 1
        ELSE IF 2 * r = count THEN q + (q % 2)
        ELSE q

\* the http_requests_total / http_errors_total lines of ToPrometheus (lines
\* 94-101, 139-146): a key is cut at its first two underscores into three
\* labels, and is printed only when it has three parts
CounterLines(m) ==
    {[labels |-> SplitN(k, "_", 3), value |-> m[k]] :
        k \in {x \in DOMAIN m : Len(SplitN(x, "_", 3)) = 3}}

\* the http_request_duration_ms lines (lines 106-127): for every "_bucket"
\* key with count > 0, the key without the suffix cut at its first underscore
\* and the mean printed with two decimals
LatencyLines(lat) ==
    LET shown == {k \in DOMAIN lat : /\ HasSuffix(k, BucketSuffix)
                                     /\ lat[k].kind = "bucket"
                                     /\ lat[k].count > 0}
    IN  {[labels |-> SplitN(TrimSuffix(k, BucketSuffix), "_", 2),
          value |-> Sprintf2f(lat[k].sum, lat[k].count)] :
            k \in {x \in shown : Len(SplitN(TrimSuffix(x, BucketSuffix), "_", 2)) = 2}}

\* ToPrometheus, lines 81-157: the three groups of metric lines (each group
\* is printed in the order of its sorted keys; the lines are kept as a set).
\* Line 117 asserts every "_bucket" entry to be a *LatencyBucket, a panic
\* otherwise
ToPrometheus(rt, lat, et) ==
    IF \E k \in DOMAIN lat : HasSuffix(k, BucketSuffix) /\ lat[k].kind # "bucket"
    THEN [panic |-> TRUE, requests |-> {}, latencies |-> {}, errors |-> {}]
    ELSE [panic |-> FALSE,
          requests |-> CounterLines(rt),
          latencies |-> LatencyLines(lat),
          errors |-> CounterLines(et)]

\* a counter's value, 0 for a key never recorded
Count(m, key) == IF key \in DOMAIN m THEN m[key] ELSE 0

----------------------------------------------------------------------------
(* The request context pool: App.pool, App.acquireCtx, App.releaseCtx *)

\* App.pool.New
NewCtx == [Params |-> EmptyMap, Locals |-> EmptyMap, Auth |-> NoAuth,
           RequestCtx |-> 0, Logger |-> Nil]

\* acquireCtx without the clearing loops
acquireCtxKeep(ctx, fctx) == [ctx EXCEPT !.RequestCtx = fctx, !.Logger = "logger"]

\* App.acquireCtx on the object that pool.Get returned
acquireCtx(ctx, fctx) ==
    [ctx EXCEPT !.RequestCtx = fctx, !.Logger = "logger",
                !.Params = EmptyMap, !.Locals = EmptyMap]

\* a release that puts the context back as it is
releaseCtxAttached(ctx) == ctx

\* App.releaseCtx before pool.Put
releaseCtx(ctx) == [ctx EXCEPT !.RequestCtx = 0, !.Logger = Nil]

\* sync.Pool.Get: the objects it may return (0: none is available, New is called)
PoolGet(p) == IF p = {} THEN {0} ELSE p

\* a Get that leaves the object in the pool
PoolTakeKeep(p, c) == p

\* sync.Pool.Get hands the object to its caller alone: it leaves the pool
PoolTake(p, c) == p \ {c}

\* sync.Pool.Put
PoolPut(p, c) == p \cup {c}

----------------------------------------------------------------------------
(* The application: what main() registers and what clients send *)

GET == <<"G", "E", "T">>

POST == <<"P", "O", "S", "T">>

MkOp(op, r, method, path, list) ==
    [op |-> op, r |-> r, method |-> method, path |-> path, list |-> list]

UseOp(mw) == MkOp("Use", 0, <<>>, <<>>, mw)

GroupOp(r, prefix) == MkOp("Group", r, <<>>, prefix, <<>>)

RouterUseOp(r, mw) == MkOp("RouterUse", r, <<>>, <<>>, mw)

AddOp(r, method, path, handlers) == MkOp("Add", r, method, path, handlers)

\* the registrations of main(), in program order
MainScript == <<
    UseOp(<<"A">>),
    UseOp(<<"B">>),
    AddOp(1, GET, <<"/", "p">>, <<"hOK">>),
    GroupOp(1, <<"/", "s">>),
    RouterUseOp(2, <<"BasicAuth">>),
    AddOp(2, GET, <<"/", "x">>, <<"hProfile">>),
    GroupOp(1, <<"/", "c">>),
    RouterUseOp(3, <<"C">>),
    AddOp(3, GET, <<>>, <<"hOK">>),
    AddOp(1, GET, <<"/", "f">>, <<"hFail">>),
    AddOp(1, GET, <<"/", "u", "/", ":", "i", "d">>, <<"hWrite">>),
    AddOp(1, GET, <<"/", "q">>, <<"hProfile">>) >>

BasicAdminSecret == <<"B", "a", "s", "i", "c", " ", "Y", "W", "R", "t", "a", "W", "4", "6", "c", "2", "V", "j", "c", "m", "V", "0">>

MkInput(method, path, headers) == [method |-> method, path |-> path, headers |-> headers]

NoHeaders == [k \in {} |-> <<>>]

AuthHeader(v) == [k \in {"Authorization"} |-> v]

\* the requests clients send to the application of MainScript
MainInputs == {
    MkInput(GET, <<"/", "p">>, NoHeaders),
    MkInput(GET, <<"/", "s", "/", "x">>, AuthHeader(BasicAdminSecret)),
    MkInput(GET, <<"/", "s", "/", "x">>, NoHeaders),
    MkInput(GET, <<"/", "c">>, NoHeaders),
    MkInput(GET, <<"/", "f">>, NoHeaders),
    MkInput(GET, <<"/", "u", "/", "7">>, NoHeaders),
    MkInput(GET, <<"/", "q">>, NoHeaders),
    MkInput(GET, <<"/", "n">>, NoHeaders),
    MkInput(GET, <<"/", "n">> \o BucketSuffix, NoHeaders) }

\* registrations tried in any order (free mode)
FreeOps(rs) ==
    {GroupOp(r, <<"/", "u">>) : r \in 1..Len(rs)}
    \cup {RouterUseOp(r, <<"C">>) : r \in 2..Len(rs)}
    \cup {AddOp(1, m, <<"/", "u", "/", ":", "i", "d">>, <<"hParam">>) : m \in {GET, POST}}
    \cup {AddOp(r, m, <<"/", "m", "e">>, <<"hOK">>) : r \in 2..Len(rs), m \in {GET, POST}}
    \cup {AddOp(r, m, <<"/", ":", "i", "d">>, <<"hWrite">>) : r \in 2..Len(rs), m \in {GET, POST}}

FreeInputs == {
    MkInput(GET, <<"/", "u", "/", "m", "e">>, NoHeaders),
    MkInput(GET, <<"/", "u", "/", "7">>, NoHeaders),
    MkInput(POST, <<"/", "u", "/", "m", "e">>, NoHeaders),
    MkInput(GET, <<"/", "p">>, NoHeaders) }

\* an application whose handlers leave the status unset, set it, or set it
\* and fail
StatusScript == <<
    AddOp(1, GET, <<"/", "a">>, <<"hNone">>),
    AddOp(1, GET, <<"/", "b">>, <<"hCreated">>),
    AddOp(1, GET, <<"/", "x">>, <<"hBad">>) >>

\* the requests clients send to the application of StatusScript
StatusInputs == {
    MkInput(GET, <<"/", "a">>, NoHeaders),
    MkInput(GET, <<"/", "b">>, NoHeaders),
    MkInput(GET, <<"/", "x">>, NoHeaders),
    MkInput(GET, <<"/", "x">> \o BucketSuffix, NoHeaders) }

\* an application with one route without and one with a trailing slash
SlashScript == <<
    AddOp(1, GET, <<"/", "a">>, <<"hOK">>),
    AddOp(1, GET, <<"/", "b", "/">>, <<"hCreated">>) >>

\* the requests clients send to the application of SlashScript
SlashInputs == {
    MkInput(GET, <<"/", "a">>, NoHeaders),
    MkInput(GET, <<"/", "a", "/">>, NoHeaders),
    MkInput(GET, <<"/", "b">>, NoHeaders),
    MkInput(GET, <<"/", "b", "/">>, NoHeaders) }

\* an application that calls Use three times, then registers two groups with
\* a middleware each: /s behind BasicAuth, /o behind the logging D
ShareScript == <<
    UseOp(<<"A">>),
    UseOp(<<"B">>),
    UseOp(<<"C">>),
    GroupOp(1, <<"/", "s">>),
    RouterUseOp(2, <<"BasicAuth">>),
    AddOp(2, GET, <<"/", "x">>, <<"hOK">>),
    GroupOp(1, <<"/", "o">>),
    RouterUseOp(3, <<"D">>),
    AddOp(3, GET, <<"/", "y">>, <<"hOK">>) >>

\* the requests clients send to the application of ShareScript
ShareInputs == {
    MkInput(GET, <<"/", "s", "/", "x">>, NoHeaders),
    MkInput(GET, <<"/", "o", "/", "y">>, NoHeaders) }

\* an application with a global middleware, a group behind BasicAuth holding a
\* route with one handler and a route registered with no handler, and a route
\* with two handlers
EmptyScript == <<
    UseOp(<<"A">>),
    GroupOp(1, <<"/", "s">>),
    RouterUseOp(2, <<"BasicAuth">>),
    AddOp(2, GET, <<"/", "x">>, <<"hOK">>),
    AddOp(2, GET, <<"/", "z">>, <<>>),
    AddOp(1, GET, <<"/", "t">>, <<"hNone", "hOK">>) >>

\* the requests clients send to the application of EmptyScript
EmptyInputs == {
    MkInput(GET, <<"/", "s", "/", "x">>, NoHeaders),
    MkInput(GET, <<"/", "s", "/", "x">>, AuthHeader(BasicAdminSecret)),
    MkInput(GET, <<"/", "s", "/", "z">>, NoHeaders),
    MkInput(GET, <<"/", "t">>, NoHeaders) }

\* an application that registers routes before and after Use on the app and
\* on a group g (/g) that has a child h (/g/h) and a sibling k (/k)
FrameScript == <<
    AddOp(1, GET, <<"/", "e">>, <<"hOK">>),
    UseOp(<<"A">>),
    GroupOp(1, <<"/", "g">>),
    GroupOp(2, <<"/", "h">>),
    GroupOp(1, <<"/", "k">>),
    AddOp(2, GET, <<"/", "1">>, <<"hOK">>),
    RouterUseOp(2, <<"C">>),
    AddOp(2, GET, <<"/", "2">>, <<"hOK">>),
    AddOp(3, GET, <<"/", "r">>, <<"hOK">>),
    AddOp(4, GET, <<"/", "r">>, <<"hOK">>),
    UseOp(<<"B">>),
    AddOp(1, GET, <<"/", "l">>, <<"hOK">>) >>

\* the requests clients send to the application of FrameScript
FrameInputs == {
    MkInput(GET, <<"/", "e">>, NoHeaders),
    MkInput(GET, <<"/", "g", "/", "1">>, NoHeaders),
    MkInput(GET, <<"/", "g", "/", "2">>, NoHeaders),
    MkInput(GET, <<"/", "g", "/", "h", "/", "r">>, NoHeaders),
    MkInput(GET, <<"/", "k", "/", "r">>, NoHeaders),
    MkInput(GET, <<"/", "l">>, NoHeaders) }

\* an application with a global middleware, a GET route and a POST route
MethodScript == <<
    UseOp(<<"A">>),
    AddOp(1, GET, <<"/", "a">>, <<"hOK">>),
    AddOp(1, POST, <<"/", "b">>, <<"hCreated">>) >>

\* the requests clients send to the application of MethodScript: each path
\* under both methods, and /a under the method written in lower case
MethodInputs == {
    MkInput(GET, <<"/", "a">>, NoHeaders),
    MkInput(POST, <<"/", "a">>, NoHeaders),
    MkInput(<<"g", "e", "t">>, <<"/", "a">>, NoHeaders),
    MkInput(GET, <<"/", "b">>, NoHeaders),
    MkInput(POST, <<"/", "b">>, NoHeaders) }

\* an application with the route /:id in the group /u
PatternScript == <<
    GroupOp(1, <<"/", "u">>),
    AddOp(2, GET, <<"/", ":", "i", "d">>, <<"hParam">>) >>

\* the requests clients send to the application of PatternScript
PatternInputs == {
    MkInput(GET, <<"/", "u", "/", "1">>, NoHeaders),
    MkInput(GET, <<"/", "u", "/", "2">>, NoHeaders),
    MkInput(GET, <<"/", "x", "/", "1">>, NoHeaders) }

\* an application that registers /u/:id before the literal /u/me
ParamScript == <<
    AddOp(1, GET, <<"/", "u", "/", ":", "i", "d">>, <<"hParam">>),
    AddOp(1, GET, <<"/", "u", "/", "m", "e">>, <<"hOK">>) >>

\* the requests clients send to the application of ParamScript
ParamInputs == {
    MkInput(GET, <<"/", "u", "/">>, NoHeaders),
    MkInput(GET, <<"/", "u", "/", "m", "e">>, NoHeaders),
    MkInput(GET, <<"/", "u", "/", "7">>, NoHeaders),
    MkInput(GET, <<"/", "u">>, NoHeaders) }

\* an application with a handler that never returns
ShutdownScript == <<
    AddOp(1, GET, <<"/", "w">>, <<"hBlock">>),
    AddOp(1, GET, <<"/", "p">>, <<"hOK">>) >>

\* the requests clients send to the application of ShutdownScript
ShutdownInputs == {
    MkInput(GET, <<"/", "w">>, NoHeaders),
    MkInput(GET, <<"/", "p">>, NoHeaders) }

\* a program that nests groups three deep and calls Use on a group after a
\* child of it was created:
\*   g := app.Group("/v"); g.Use(A); h := g.Group("/w"); g.Use(B)
\*   h.GET("/r"); k := h.Group("/z"); h.Use(C); k.GET("/r"); g.GET("/r")
GroupScript == <<
    GroupOp(1, <<"/", "v">>),
    RouterUseOp(2, <<"A">>),
    GroupOp(2, <<"/", "w">>),
    RouterUseOp(2, <<"B">>),
    AddOp(3, GET, <<"/", "r">>, <<"hOK">>),
    GroupOp(3, <<"/", "z">>),
    RouterUseOp(3, <<"C">>),
    AddOp(4, GET, <<"/", "r">>, <<"hOK">>),
    AddOp(2, GET, <<"/", "r">>, <<"hOK">>) >>

\* the requests clients send to the application of GroupScript
GroupInputs == {
    MkInput(GET, <<"/", "v", "/", "r">>, NoHeaders),
    MkInput(GET, <<"/", "v", "/", "w", "/", "r">>, NoHeaders),
    MkInput(GET, <<"/", "v", "/", "w", "/", "z", "/", "r">>, NoHeaders),
    MkInput(GET, <<"/", "w", "/", "r">>, NoHeaders) }

\* the modes in which the registrations are a program's, run in its order
Scripted == mode \in {"script", "status", "groups", "shutdown", "slash", "share",
                     "empty", "frame", "method", "pattern",
                     "param"}

Inputs ==
    CASE mode = "script" -> MainInputs
      [] mode = "status" -> StatusInputs
      [] mode = "groups" -> GroupInputs
      [] mode = "shutdown" -> ShutdownInputs
      [] mode = "slash" -> SlashInputs
      [] mode = "share" -> ShareInputs
      [] mode = "empty" -> EmptyInputs
      [] mode = "frame" -> FrameInputs
      [] mode = "method" -> MethodInputs
      [] mode = "pattern" -> PatternInputs
      [] mode = "param" -> ParamInputs
      [] OTHER -> FreeInputs

\* the registration main() performs next, or one the free mode admits
Allowed(o) ==
    IF Scripted
    THEN script # <<>> /\ o = Head(script)
    ELSE /\ o \in FreeOps(routers)
         /\ o.op = "Group" => Len(routers) - 1 < MaxGroups
         /\ o.op = "RouterUse" =>
                \A i \in 1..Len(routers[o.r].middleware) :
                    routers[o.r].middleware[i] # o.list[1]
         /\ o.op = "Add" => Len(routes) < MaxRoutes

Ops == IF Scripted
       THEN IF script = <<>> THEN {} ELSE {Head(script)}
       ELSE FreeOps(routers)

Done(o) == script' = IF Scripted THEN Tail(script) ELSE script

----------------------------------------------------------------------------
(* Registration *)

\* App.Use: a.middleware = append(a.middleware, mw...)
AppUse ==
    \E o \in Ops :
        /\ ~crashed /\ o.op = "Use" /\ Allowed(o)
        /\ LET a == AppendSlice(appMw, arrays, o.list, TRUE)
           IN  appMw' = a.slice /\ arrays' = a.arrays
        /\ Done(o)
        /\ UNCHANGED <<routes, routers, mode, metricsOn, crashed>>
        /\ UNCHANGED <<poolVars, req, envVars, dispatched, metricVars, fnVars>>

\* App.Group / Router.Group
Group ==
    \E o \in Ops :
        /\ ~crashed /\ o.op = "Group" /\ Allowed(o)
        /\ routers' = Append(routers, GroupOf(routers[o.r], o.path))
        /\ Done(o)
        /\ UNCHANGED <<routes, appMw, arrays, mode, metricsOn, crashed>>
        /\ UNCHANGED <<poolVars, req, envVars, dispatched, metricVars, fnVars>>

\* Router.Use
RouterUse ==
    \E o \in Ops :
        /\ ~crashed /\ o.op = "RouterUse" /\ Allowed(o)
        /\ routers' = [routers EXCEPT ![o.r] = RouterUseOf(@, o.list)]
        /\ Done(o)
        /\ UNCHANGED <<routes, appMw, arrays, mode, metricsOn, crashed>>
        /\ UNCHANGED <<poolVars, req, envVars, dispatched, metricVars, fnVars>>

\* Router.add (App.GET, Router.GET, ...): the append under the write lock
Add ==
    \E o \in Ops :
        /\ ~crashed /\ o.op = "Add" /\ Allowed(o)
        /\ routes' = Append(routes, RouteOf(routers[o.r], o.method, o.path, o.list))
        /\ Done(o)
        /\ UNCHANGED <<routers, appMw, arrays, mode, metricsOn, crashed>>
        /\ UNCHANGED <<poolVars, req, envVars, dispatched, metricVars, fnVars>>

----------------------------------------------------------------------------
(* App.handleRequest, one goroutine per request.  pc is the goroutine's     *)
(* position: idle -> acquired -> built -> record -> recorded -> done, with  *)
(* acquired -> record when no route matches, and panicking -> dead when a   *)
(* panic unwinds handleRequest (the deferred releaseCtx runs, nothing       *)
(* recovers, the process ends).                                             *)

NoSlice == [arr |-> 0, len |-> 0, priv |-> <<>>]

IdleReq == [pc |-> "idle", method |-> <<>>, path |-> <<>>, headers |-> NoHeaders,
            c |-> 0, route |-> 0, allMw |-> NoSlice,
            statusCode |-> 0, body |-> NoBody, respHdr |-> EmptyMap, log |-> <<>>,
            mpath |-> <<>>, mstatus |-> 0, mkind |-> <<>>,
            acquires |-> 0, records |-> 0, releases |-> 0]

Slots == 1..nslots

Serving == ~crashed /\ (Scripted => script = <<>>) /\ shutdown.pc = "none"

\* the call state a handler sees: the Ctx and its embedded RequestCtx
CallState(ctx, rq) ==
    [Params |-> ctx.Params, Locals |-> ctx.Locals, Auth |-> ctx.Auth,
     headers |-> rq.headers, statusCode |-> rq.statusCode, body |-> rq.body,
     respHdr |-> rq.respHdr, log |-> rq.log, err |-> "nil"]

\* lines 189-193: start := time.Now(); c := a.acquireCtx(fctx); defer a.releaseCtx(c)
Acquire(r) ==
    \E in \in Inputs, got \in PoolGet(pool) :
        /\ Serving /\ req[r].pc \in {"idle", "done"}
        /\ dispatched < MaxDispatch
        /\ LET c == IF got = 0 THEN Len(ctxs) + 1 ELSE got
               obj == IF got = 0 THEN NewCtx ELSE ctxs[got]
           IN  /\ ctxs' = [i \in 1..(IF got = 0 THEN Len(ctxs) + 1 ELSE Len(ctxs)) |->
                              IF i = c THEN acquireCtx(obj, r) ELSE ctxs[i]]
               /\ pool' = PoolTake(pool, c)
               /\ req' = [req EXCEPT ![r] =
                            [IdleReq EXCEPT !.pc = "acquired", !.method = in.method,
                                            !.path = in.path, !.headers = in.headers,
                                            !.c = c, !.acquires = 1]]
        /\ dispatched' = dispatched + 1
        /\ UNCHANGED <<appVars, envVars, metricVars, fnVars>>

\* c.Status(404).JSON(404, {"error": "not found"}) on the request's response
NotFoundResponse(rq) ==
    LET c == JSON(Status(CallState(NewCtx, rq), StatusNotFound), StatusNotFound,
                  ErrorBody("not found"))
    IN  [rq EXCEPT !.statusCode = c.statusCode, !.body = c.body, !.respHdr = c.respHdr]

\* for k, v := range params { c.Params[k] = v }
BindParams(ctx, params) ==
    [ctx EXCEPT !.Params = [k \in (DOMAIN @) \cup (DOMAIN params) |->
                               IF k \in DOMAIN params THEN params[k] ELSE @[k]]]

\* lines 195-209 and 239-257: find the route; 404 when there is none; otherwise
\* bind the parameters and allMiddleware := append(a.middleware, routeMiddleware...)
Find(r) ==
    /\ ~crashed /\ req[r].pc = "acquired"
    /\ LET f == find(routes, req[r].method, req[r].path)
       IN  IF f.route = 0
           THEN /\ req' = [req EXCEPT ![r] =
                             [NotFoundResponse(@) EXCEPT
                                 !.pc = "record", !.mpath = req[r].path,
                                 !.mstatus = StatusNotFound, !.mkind = NotFoundKind]]
                /\ UNCHANGED <<ctxs, arrays>>
           ELSE LET a == IF Len(routes[f.route].Handlers) = 0
                         THEN [slice |-> NoSlice, arrays |-> arrays]
                         ELSE AppendSlice(appMw, arrays, routes[f.route].middleware, FALSE)
                IN  /\ ctxs' = [ctxs EXCEPT ![req[r].c] = BindParams(@, f.params)]
                    /\ arrays' = a.arrays
                    /\ req' = [req EXCEPT ![r].pc = "built", ![r].route = f.route,
                                          ![r].allMw = a.slice]
    /\ UNCHANGED <<routes, routers, appMw, script, mode, metricsOn, crashed>>
    /\ UNCHANGED <<pool, envVars, dispatched, metricVars, fnVars>>

\* a dispatcher that records every request without failure as 200
OutcomeAlwaysOK(c) ==
    IF c.err = "error"
    THEN [c |-> c, status |-> StatusCode(c), kind |-> HandlerErrorKind]
    ELSE [c |-> c, status |-> StatusOK, kind |-> <<>>]

\* lines 210-216 and 221-224: the status the dispatcher records, and the 500
\* response when the chain failed and StatusCode() reported 0
Outcome(c) ==
    IF c.err = "error"
    THEN IF StatusCode(c) = 0
         THEN [c |-> JSON(Status(c, StatusInternalServerError), StatusInternalServerError,
                          ErrorBody("internal server error")),
               status |-> StatusInternalServerError, kind |-> HandlerErrorKind]
         ELSE [c |-> c, status |-> StatusCode(c), kind |-> HandlerErrorKind]
    ELSE [c |-> c,
          status |-> IF StatusCode(c) = 0 THEN StatusOK ELSE StatusCode(c),
          kind |-> <<>>]

\* lines 258-262 and 210-225: wrap the middleware read from allMiddleware, run
\* the chain, settle the status
Exec(r) ==
    /\ ~crashed /\ req[r].pc = "built"
    /\ LET route == routes[req[r].route]
           chain == buildChain(route.Handlers, Elems(req[r].allMw, arrays))
       IN  \E ran \in {Call(chain, CallState(ctxs[req[r].c], req[r]))} :
           \E out \in {Outcome(ran)} :
           \E fin \in {IF ran.err = "panic" THEN ran ELSE out.c} :
           /\ ran.err # "block"
           /\ ctxs' = [ctxs EXCEPT ![req[r].c].Params = fin.Params,
                                   ![req[r].c].Locals = fin.Locals,
                                   ![req[r].c].Auth = fin.Auth]
           /\ req' = [req EXCEPT
                        ![r].statusCode = fin.statusCode, ![r].body = fin.body,
                        ![r].respHdr = fin.respHdr, ![r].log = fin.log,
                        ![r].pc = IF ran.err = "panic" THEN "panicking" ELSE "record",
                        ![r].mpath = route.Path,
                        ![r].mstatus = IF ran.err = "panic" THEN 0 ELSE out.status,
                        ![r].mkind = IF ran.err = "panic" THEN <<>> ELSE out.kind]
    /\ UNCHANGED <<appVars, pool, envVars, dispatched, metricVars, fnVars>>

\* time.Since(start).Milliseconds()
Durations == {0, 5}

\* App.recordMetrics
recordMetrics(on, rt, lat, et, method, path, status, ms, errorType) ==
    IF ~on
    THEN [requestTotal |-> rt, requestLatency |-> lat, errorTotal |-> et, panic |-> FALSE]
    ELSE LET o == ObserveLatency(lat, method, path, ms)
         IN  [requestTotal |-> IncRequestTotal(rt, method, path, status),
              requestLatency |-> o.m,
              errorTotal |-> IF ~o.panic /\ errorType # <<>>
                             THEN IncError(et, method, path, errorType) ELSE et,
              panic |-> o.panic]

\* lines 201, 217, 225: a.recordMetrics(method, path, status, time.Since(start), kind)
Record(r) ==
    \E ms \in Durations :
        /\ ~crashed /\ req[r].pc = "record"
        /\ LET m == recordMetrics(metricsOn, requestTotal, requestLatency, errorTotal,
                                  req[r].method, req[r].mpath, req[r].mstatus, ms,
                                  req[r].mkind)
           IN  /\ requestTotal' = m.requestTotal
               /\ requestLatency' = m.requestLatency
               /\ errorTotal' = m.errorTotal
               /\ req' = [req EXCEPT ![r].pc = IF m.panic THEN "panicking" ELSE "recorded",
                                     ![r].records = @ + 1]
        /\ UNCHANGED <<appVars, poolVars, envVars, dispatched, fnVars>>

\* the deferred a.releaseCtx(c); a panic that was unwinding then ends the process
Release(r) ==
    /\ ~crashed /\ req[r].pc \in {"recorded", "panicking"}
    /\ ctxs' = [ctxs EXCEPT ![req[r].c] = releaseCtx(@)]
    /\ pool' = PoolPut(pool, req[r].c)
    /\ req' = [req EXCEPT ![r].pc = IF @ = "panicking" THEN "dead" ELSE "done",
                          ![r].releases = @ + 1]
    /\ crashed' = (req[r].pc = "panicking")
    /\ UNCHANGED <<routes, routers, appMw, arrays, script, mode, metricsOn>>
    /\ UNCHANGED <<envVars, dispatched, metricVars, fnVars>>

----------------------------------------------------------------------------
(* Specifications *)

\* fastrest.New(cfg): no routes, no middleware, an empty pool, empty metrics
InitApp ==
    /\ routes = <<>>
    /\ routers = <<NewRouter(<<>>)>>
    /\ arrays = << <<>> >>
    /\ appMw = [arr |-> 1, len |-> 0, priv |-> <<>>]
    /\ crashed = FALSE
    /\ pool = {}
    /\ ctxs = <<>>
    /\ dispatched = 0
    /\ requestTotal = EmptyMap
    /\ requestLatency = EmptyMap
    /\ errorTotal = EmptyMap

NoFn == [name |-> "none"]

\* Shutdown has not been called
NoShutdown == [pc |-> "none", done |-> FALSE]

\* main(): New with Metrics on, the registrations of MainScript, then Listen
Init ==
    /\ InitApp
    /\ mode = "script" /\ script = MainScript
    /\ metricsOn = TRUE
    /\ nslots = MaxReq
    /\ callers = <<>> /\ shutdown = NoShutdown
    /\ req = [r \in 1..MaxReq |-> IdleReq]
    /\ fnIn = NoFn /\ fnOut = NoFn

Dispatch ==
    \/ \E r \in Slots : Acquire(r)
    \/ \E r \in Slots : Find(r)
    \/ \E r \in Slots : Exec(r)
    \/ \E r \in Slots : Record(r)
    \/ \E r \in Slots : Release(r)

Next ==
    \/ AppUse
    \/ Group
    \/ RouterUse
    \/ Add
    \/ Dispatch

Spec == Init /\ [][Next]_vars

\* registrations through the app and its groups in any order, interleaved with
\* the requests of one client; Metrics off
InitRouter ==
    /\ InitApp
    /\ mode = "free" /\ script = <<>>
    /\ metricsOn = FALSE
    /\ nslots = 1
    /\ callers = <<>> /\ shutdown = NoShutdown
    /\ req = [r \in 1..1 |-> IdleReq]
    /\ fnIn = NoFn /\ fnOut = NoFn

NextRouter ==
    \/ Group
    \/ RouterUse
    \/ Add
    \/ Dispatch

SpecRouter == InitRouter /\ [][NextRouter]_vars

\* New with Metrics on, the registrations of StatusScript, then the requests
\* of one client
InitStatus ==
    /\ InitApp
    /\ mode = "status" /\ script = StatusScript
    /\ metricsOn = TRUE
    /\ nslots = 1
    /\ callers = <<>> /\ shutdown = NoShutdown
    /\ req = [r \in 1..1 |-> IdleReq]
    /\ fnIn = NoFn /\ fnOut = NoFn

NextStatus ==
    \/ Add
    \/ Dispatch

SpecStatus == InitStatus /\ [][NextStatus]_vars

\* New, the registrations of SlashScript, then the requests served one by one
InitSlash ==
    /\ InitApp
    /\ mode = "slash" /\ script = SlashScript
    /\ metricsOn = TRUE
    /\ nslots = 1
    /\ callers = <<>> /\ shutdown = NoShutdown
    /\ req = [r \in 1..1 |-> IdleReq]
    /\ fnIn = NoFn /\ fnOut = NoFn

NextSlash ==
    \/ Add
    \/ Dispatch

SpecSlash == InitSlash /\ [][NextSlash]_vars

\* New, the registrations of ShareScript, then requests served concurrently
InitShare ==
    /\ InitApp
    /\ mode = "share" /\ script = ShareScript
    /\ metricsOn = FALSE
    /\ nslots = MaxReq
    /\ callers = <<>> /\ shutdown = NoShutdown
    /\ req = [r \in 1..MaxReq |-> IdleReq]
    /\ fnIn = NoFn /\ fnOut = NoFn

SpecShare == InitShare /\ [][Next]_vars

\* New, the registrations of EmptyScript, then the requests served one by one
InitEmpty ==
    /\ InitApp
    /\ mode = "empty" /\ script = EmptyScript
    /\ metricsOn = TRUE
    /\ nslots = 1
    /\ callers = <<>> /\ shutdown = NoShutdown
    /\ req = [r \in 1..1 |-> IdleReq]
    /\ fnIn = NoFn /\ fnOut = NoFn

SpecEmpty == InitEmpty /\ [][Next]_vars

\* New, the registrations of FrameScript, then requests served concurrently
InitFrame ==
    /\ InitApp
    /\ mode = "frame" /\ script = FrameScript
    /\ metricsOn = FALSE
    /\ nslots = MaxReq
    /\ callers = <<>> /\ shutdown = NoShutdown
    /\ req = [r \in 1..MaxReq |-> IdleReq]
    /\ fnIn = NoFn /\ fnOut = NoFn

SpecFrame == InitFrame /\ [][Next]_vars

\* New, the registrations of MethodScript, then the requests served one by one
InitMethod ==
    /\ InitApp
    /\ mode = "method" /\ script = MethodScript
    /\ metricsOn = TRUE
    /\ nslots = 1
    /\ callers = <<>> /\ shutdown = NoShutdown
    /\ req = [r \in 1..1 |-> IdleReq]
    /\ fnIn = NoFn /\ fnOut = NoFn

\* App.Use, App.GET / App.POST and App.handleRequest
NextMethod ==
    \/ AppUse
    \/ Add
    \/ Dispatch

SpecMethod == InitMethod /\ [][NextMethod]_vars

\* New, the registrations of PatternScript, then requests served concurrently
InitPattern ==
    /\ InitApp
    /\ mode = "pattern" /\ script = PatternScript
    /\ metricsOn = TRUE
    /\ nslots = MaxReq
    /\ callers = <<>> /\ shutdown = NoShutdown
    /\ req = [r \in 1..MaxReq |-> IdleReq]
    /\ fnIn = NoFn /\ fnOut = NoFn

\* App.Group, Router.GET and App.handleRequest
NextPattern ==
    \/ Group
    \/ Add
    \/ Dispatch

SpecPattern == InitPattern /\ [][NextPattern]_vars

\* New, the registrations of ParamScript, then requests served concurrently
InitParam ==
    /\ InitApp
    /\ mode = "param" /\ script = ParamScript
    /\ metricsOn = TRUE
    /\ nslots = MaxReq
    /\ callers = <<>> /\ shutdown = NoShutdown
    /\ req = [r \in 1..MaxReq |-> IdleReq]
    /\ fnIn = NoFn /\ fnOut = NoFn

SpecParam == InitParam /\ [][NextSlash]_vars

\* New, the registrations of GroupScript, then the requests served
InitGroups ==
    /\ InitApp
    /\ mode = "groups" /\ script = GroupScript
    /\ metricsOn = FALSE
    /\ nslots = MaxReq
    /\ callers = <<>> /\ shutdown = NoShutdown
    /\ req = [r \in 1..MaxReq |-> IdleReq]
    /\ fnIn = NoFn /\ fnOut = NoFn

NextGroups ==
    \/ Group
    \/ RouterUse
    \/ Add
    \/ Dispatch

SpecGroups == InitGroups /\ [][NextGroups]_vars

----------------------------------------------------------------------------
(* App.Shutdown.  shutdown.pc is the position of the goroutine that called  *)
(* it: "none" (not called), "select" (at the select of lines 334-340),      *)
(* "forcing" (in the a.server.Shutdown() of line 337), "returned";          *)
(* shutdown.done tells that the goroutine of lines 330-332 has sent the     *)
(* result of its a.server.Shutdown() on the channel done.                   *)

\* fasthttp's Server.Shutdown stops accepting and returns once no connection
\* is serving a request: it has no deadline and closes no busy connection
ServerIdle == \A r \in Slots : req[r].pc \in {"idle", "done", "dead"}

shutdownVarsRest == <<appVars, poolVars, req, dispatched, metricVars, fnVars, nslots, callers>>

\* lines 326-332: the timer is armed and the goroutine started
ShutdownCall ==
    /\ ~crashed /\ script = <<>> /\ shutdown.pc = "none"
    /\ shutdown' = [pc |-> "select", done |-> FALSE]
    /\ UNCHANGED shutdownVarsRest

\* lines 330-332: done <- a.server.Shutdown()
ServerShutdownReturns ==
    /\ ~crashed /\ shutdown.pc \in {"select", "forcing"} /\ ~shutdown.done
    /\ ServerIdle
    /\ shutdown' = [shutdown EXCEPT !.done = TRUE]
    /\ UNCHANGED shutdownVarsRest

\* lines 339-340: case err := <-done: return err
ShutdownDone ==
    /\ ~crashed /\ shutdown.pc = "select" /\ shutdown.done
    /\ shutdown' = [shutdown EXCEPT !.pc = "returned"]
    /\ UNCHANGED shutdownVarsRest

\* lines 335-337: case <-ctx.Done(): the grace period has elapsed, the warning
\* is logged and a.server.Shutdown() is called again
ShutdownTimeout ==
    /\ ~crashed /\ shutdown.pc = "select"
    /\ shutdown' = [shutdown EXCEPT !.pc = "forcing"]
    /\ UNCHANGED shutdownVarsRest

\* line 337: return a.server.Shutdown(), once that call returns
ShutdownForcedReturns ==
    /\ ~crashed /\ shutdown.pc = "forcing"
    /\ ServerIdle
    /\ shutdown' = [shutdown EXCEPT !.pc = "returned"]
    /\ UNCHANGED shutdownVarsRest

\* New, the registrations of ShutdownScript, Listen, and a signal at any time
InitShutdown ==
    /\ InitApp
    /\ mode = "shutdown" /\ script = ShutdownScript
    /\ metricsOn = FALSE
    /\ nslots = MaxReq
    /\ callers = <<>> /\ shutdown = NoShutdown
    /\ req = [r \in 1..MaxReq |-> IdleReq]
    /\ fnIn = NoFn /\ fnOut = NoFn

NextShutdown ==
    \/ Add
    \/ Dispatch
    \/ ShutdownCall
    \/ ServerShutdownReturns
    \/ ShutdownDone
    \/ ShutdownTimeout
    \/ ShutdownForcedReturns

SpecShutdown == InitShutdown /\ [][NextShutdown]_vars

\* the function specifications leave the application as New built it
InitFn ==
    /\ InitApp
    /\ mode = "fn" /\ script = <<>>
    /\ metricsOn = FALSE
    /\ nslots = 0
    /\ callers = <<>> /\ shutdown = NoShutdown
    /\ req = <<>>
    /\ fnOut = NoFn

SegLists(U) == UNION {[1..n -> U] : n \in 1..MaxSegs}

\* segments a pattern and a path are written from
PatternSegs == {<<>>, <<"a">>, <<":", "x">>, <<":", "y">>}

PathSegs == {<<>>, <<"a">>, <<"A">>, <<"b">>}

InitMatch ==
    /\ InitFn
    /\ \E P \in SegLists(PatternSegs), Q \in SegLists(PathSegs) :
           fnIn = [name |-> "matchPath", pattern |-> P, path |-> Q]

\* matchPath(pattern, path) on the written pattern and path
MatchPathCall ==
    /\ fnIn.name = "matchPath" /\ fnOut.name = "none"
    /\ fnOut' = [name |-> "matchPath",
                 r |-> matchPath(Join(fnIn.pattern), Join(fnIn.path))]
    /\ UNCHANGED <<appVars, poolVars, req, envVars, dispatched, metricVars, fnIn>>

SpecMatch == InitMatch /\ [][MatchPathCall]_vars

\* segments a pattern given to add is written from, ":" being a parameter
\* without a name
RegisterSegs == PatternSegs \cup {<<":">>}

\* the patterns given to add: the empty one and those written from segments
RegisterPatterns == {<<>>} \cup {Join(P) : P \in SegLists(RegisterSegs)}

InitRegister ==
    /\ InitFn
    /\ \E m \in {GET, POST}, P \in RegisterPatterns :
           fnIn = [name |-> "add", method |-> m, pattern |-> P]

\* r.add(method, path, handlers...) on the app's router: it has no result and
\* no branch that leaves the table alone
RegisterCall ==
    /\ fnIn.name = "add" /\ fnOut.name = "none"
    /\ routes' = Append(routes, RouteOf(routers[1], fnIn.method, fnIn.pattern, <<"hOK">>))
    /\ fnOut' = [name |-> "add", failed |-> FALSE]
    /\ UNCHANGED <<routers, appMw, arrays, script, mode, metricsOn, crashed>>
    /\ UNCHANGED <<poolVars, req, envVars, dispatched, metricVars, fnIn>>

SpecRegister == InitRegister /\ [][RegisterCall]_vars

AuthStrategies == {"BasicAuth", "BearerAuth", "APIKeyAuth", "APIKeyAuthDefault"}

\* values of the Authorization header
AuthorizationValues == {
    <<>>,
    <<"B", "a", "s", "i", "c", " ", "Y", "W", "R", "t", "a", "W", "4", "6", "c", "2", "V", "j", "c", "m", "V", "0">>,
    <<"B", "a", "s", "i", "c", " ", "Y", "W", "R", "t", "a", "W", "4", "6", "e", "A", "=", "=">>,
    <<"B", "a", "s", "i", "c", " ", "Y", "W", "R", "t", "a", "W", "4", "=">>,
    <<"B", "a", "s", "i", "c", " ", "!", "!", "!", "!">>,
    <<"B", "a", "s", "i", "c", " ", "Y", "W", "R", "t", "a", "W", "4", "6", "c", "2", "V", "j", "c", "m", "V", "0", "=">>,
    <<"B", "a", "s", "i", "c", " ">>,
    <<"b", "a", "s", "i", "c", " ", "Y", "W", "R", "t", "a", "W", "4", "6", "c", "2", "V", "j", "c", "m", "V", "0">>,
    <<"B", "e", "a", "r", "e", "r", " ", "t", "o", "k">>,
    <<"B", "e", "a", "r", "e", "r", " ", "n", "o">>,
    <<"B", "e", "a", "r", "e", "r", " ">>,
    <<"T", "o", "k", "e", "n", " ", "t", "o", "k">> }

\* values of the X-API-Key header
APIKeyValues == {<<>>, <<"k", "e", "y", "1">>, <<"z", "z">>}

RequestHeaders(auth, key) ==
    [k \in (IF auth = <<>> THEN {} ELSE {"Authorization"})
           \cup (IF key = <<>> THEN {} ELSE {"X-API-Key"}) |->
        IF k = "Authorization" THEN auth ELSE key]

\* the Auth field of the context the middleware runs on (acquireCtx leaves it)
PriorAuths == {NoAuth, AuthInfo("bearer", <<"o", "l", "d">>, <<>>, <<>>)}

InitAuth ==
    /\ InitFn
    /\ \E mw \in AuthStrategies \cup CombinedStrategies, auth \in AuthorizationValues, key \in APIKeyValues,
          prior \in PriorAuths :
           fnIn = [name |-> "auth", mw |-> mw, auth |-> auth, key |-> key,
                   prior |-> prior]

\* mw(next)(c), next being a handler of the route
AuthCall ==
    /\ fnIn.name = "auth" /\ fnOut.name = "none"
    /\ fnOut' = [name |-> "auth",
                 c |-> Call([kind |-> "mw", name |-> fnIn.mw,
                             next |-> [kind |-> "h", name |-> "hNext"]],
                            CallState([NewCtx EXCEPT !.Auth = fnIn.prior],
                                      [IdleReq EXCEPT !.headers =
                                          RequestHeaders(fnIn.auth, fnIn.key)]))]
    /\ UNCHANGED <<appVars, poolVars, req, envVars, dispatched, metricVars, fnIn>>

SpecAuth == InitAuth /\ [][AuthCall]_vars

\* handlers and middlewares a route of the chain specification is built from
ChainHandlers == {"hOK", "hNone", "hFail", "hBad"}

ChainMiddlewares == {"A", "B", "BasicAuth", "Deny"}

InitChain ==
    /\ InitFn
    /\ \E hs \in UNION {[1..n -> ChainHandlers] : n \in 1..MaxHandlers},
          mws \in UNION {[1..n -> ChainMiddlewares] : n \in 0..MaxMw},
          auth \in {<<>>, BasicAdminSecret} :
           fnIn = [name |-> "chain", handlers |-> hs, mws |-> mws, auth |-> auth]

\* a.buildChain(route.Handlers, route.middleware)(c)
ChainCall ==
    /\ fnIn.name = "chain" /\ fnOut.name = "none"
    /\ fnOut' = [name |-> "chain",
                 c |-> Call(buildChain(fnIn.handlers, fnIn.mws),
                            CallState(NewCtx,
                                      [IdleReq EXCEPT !.headers =
                                          RequestHeaders(fnIn.auth, <<>>)]))]
    /\ UNCHANGED <<appVars, poolVars, req, envVars, dispatched, metricVars, fnIn>>

SpecChain == InitChain /\ [][ChainCall]_vars

----------------------------------------------------------------------------
(* Properties *)

InFlight(r) == req[r].pc \in {"acquired", "built", "record", "recorded", "panicking"}

Ran(r) == req[r].pc \in {"record", "recorded", "done"} /\ req[r].route # 0

\* C1: the context acquire returns carries no Auth Result, whatever earlier
\* requests attached to the pooled object  (Spec)
C1_AcquireHasNoAuth ==
    \A r \in Slots : req[r].pc = "acquired" => GetAuth(ctxs[req[r].c]) = NoAuth

----------------------------------------------------------------------------

\* the request carries the credential the strategy's validator accepts
ValidCredential ==
    CASE fnIn.mw = "BasicAuth" -> fnIn.auth = BasicAdminSecret
      [] fnIn.mw = "BearerAuth" ->
            fnIn.auth = <<"B", "e", "a", "r", "e", "r", " ", "t", "o", "k">>
      [] OTHER -> fnIn.key = <<"k", "e", "y", "1">>

NextInvoked == \E i \in 1..Len(fnOut.c.log) : fnOut.c.log[i] = <<"handler", "hNext">>

AuthAttached == \E i \in 1..Len(fnOut.c.log) : fnOut.c.log[i][1] = "SetAuth"

\* C2: an auth middleware invokes next only when the credential was extracted
\* and the validator accepted it; otherwise the response is 401, next is not
\* invoked and the middleware attaches no Auth Result  (SpecAuth)
C2_AuthGate ==
    (fnOut.name = "auth" /\ fnIn.mw \in AuthStrategies) =>
        /\ NextInvoked => ValidCredential
        /\ ~ValidCredential =>
               /\ fnOut.c.statusCode = StatusUnauthorized
               /\ fnOut.c.body.kind = "error"
               /\ ~NextInvoked
               /\ ~AuthAttached
               /\ fnOut.c.Auth = fnIn.prior

\* a well-formed Basic credential the validator rejects was answered 401
C2_Witness ==
    /\ fnOut.name = "auth" /\ fnIn.mw = "BasicAuth"
    /\ fnIn.auth = BasicPrefix \o <<"Y", "W", "R", "t", "a", "W", "4", "6", "e", "A", "=", "=">>
    /\ fnOut.c.statusCode = StatusUnauthorized
    /\ ~NextInvoked

----------------------------------------------------------------------------

Matches(i, rq) ==
    /\ routes[i].Method = rq.method
    /\ matchPath(routes[i].Path, rq.path).ok

HandlersRun(log) ==
    LET ran == SelectSeq(log, LAMBDA e : e[1] = "handler")
    IN  [i \in 1..Len(ran) |-> ran[i][2]]

\* C3: of two routes of the request's method that both match its path, the one
\* registered later is never selected: the route found is the first registered
\* that matches, its parameters are bound and its handlers are the ones run
\* (SpecRouter)
C3_FirstRegisteredWins ==
    \A r \in Slots :
        req[r].route # 0 =>
            /\ Matches(req[r].route, req[r])
            /\ \A i, j \in 1..Len(routes) :
                   (i < j /\ Matches(i, req[r]) /\ Matches(j, req[r])) => req[r].route # j
            /\ req[r].pc = "built" =>
                   ctxs[req[r].c].Params =
                       matchPath(routes[req[r].route].Path, req[r].path).params
            /\ Ran(r) => HandlersRun(req[r].log) = routes[req[r].route].Handlers

\* a request served by the first of two matching routes with different handlers
C3_Witness ==
    \E r \in Slots :
        /\ req[r].pc = "done" /\ req[r].route = 1
        /\ Len(routes) >= 2 /\ Matches(2, req[r])
        /\ routes[1].Handlers # routes[2].Handlers
        /\ HandlersRun(req[r].log) = routes[1].Handlers

----------------------------------------------------------------------------

IsParam(seg) == seg # <<>> /\ seg[1] = ":"

ParamSegs(P) == {i \in 1..Len(P) : IsParam(P[i])}

\* the pattern and the path agree segment by segment
SegsAgree(P, Q) ==
    /\ Len(P) = Len(Q)
    /\ \A i \in 1..Len(P) : ~IsParam(P[i]) => P[i] = Q[i]

\* C4 as stated: matchPath succeeds exactly when the segment counts are equal
\* and the literal segments are equal, and then binds every :name segment to
\* the path segment at its position, and nothing else  (SpecMatch)
C4_BindsEveryParam ==
    fnOut.name = "matchPath" =>
        LET P == fnIn.pattern
            Q == fnIn.path
        IN  /\ fnOut.r.ok <=> SegsAgree(P, Q)
            /\ fnOut.r.ok =>
                   /\ DOMAIN fnOut.r.params = {Tail(P[i]) : i \in ParamSegs(P)}
                   /\ \A i \in ParamSegs(P) : fnOut.r.params[Tail(P[i])] = Q[i]

\* C4: matchPath succeeds exactly when the segment counts are equal and the
\* literal segments are equal, and then binds exactly the names of the :name
\* segments, each to the path segment at the last position where the pattern
\* uses that name  (SpecMatch)
C4_MatchPath ==
    fnOut.name = "matchPath" =>
        LET P == fnIn.pattern
            Q == fnIn.path
        IN  /\ fnOut.r.ok <=> SegsAgree(P, Q)
            /\ fnOut.r.ok =>
                   /\ DOMAIN fnOut.r.params = {Tail(P[i]) : i \in ParamSegs(P)}
                   /\ \A i \in ParamSegs(P) :
                          (\A j \in ParamSegs(P) : j > i => Tail(P[j]) # Tail(P[i]))
                              => fnOut.r.params[Tail(P[i])] = Q[i]

\* /a/:x/:y against /a/A/b: matched, x and y bound
C4_Witness ==
    /\ fnOut.name = "matchPath" /\ fnOut.r.ok
    /\ fnIn.pattern = << <<"a">>, <<":", "x">>, <<":", "y">> >>
    /\ fnIn.path = << <<"a">>, <<"A">>, <<"b">> >>
    /\ fnOut.r.params[<<"x">>] = <<"A">> /\ fnOut.r.params[<<"y">>] = <<"b">>

----------------------------------------------------------------------------

Entries(kind, names) == [i \in 1..Len(names) |-> <<kind, names[i]>>]

Reverse(s) == [i \in 1..Len(s) |-> s[Len(s) - i + 1]]

LoggingNames == {"A", "B", "C"}

\* C5: with global middleware [A, B] and route middleware [C], the order
\* observed is before A, B, C, the handler, then after C, B, A; for every
\* route of the application whose own middleware only logs, the global ones
\* come first, then the route's, and they unwind in reverse  (Spec)
C5_MiddlewareOrder ==
    \A r \in Slots :
        (/\ Ran(r)
         /\ \A i \in 1..Len(routes[req[r].route].middleware) :
                routes[req[r].route].middleware[i] \in LoggingNames) =>
            LET all == Elems(appMw, arrays) \o routes[req[r].route].middleware
            IN  req[r].log = Entries("before", all)
                               \o Entries("handler", routes[req[r].route].Handlers)
                               \o Entries("after", Reverse(all))

\* GET /c ran through A, B, C and back
C5_Witness ==
    \E r \in Slots :
        /\ req[r].pc = "done" /\ req[r].path = <<"/", "c">>
        /\ req[r].log = << <<"before", "A">>, <<"before", "B">>, <<"before", "C">>,
                           <<"handler", "hOK">>,
                           <<"after", "C">>, <<"after", "B">>, <<"after", "A">> >>

----------------------------------------------------------------------------

\* C6: no context object is held by two in-flight requests at once, and an
\* object a request holds is not in the pool  (Spec)
C6_ExclusiveContext ==
    \A r1 \in Slots :
        InFlight(r1) =>
            /\ req[r1].c \notin pool
            /\ \A r2 \in Slots : (r2 # r1 /\ InFlight(r2)) => req[r2].c # req[r1].c

\* two requests in flight, one of them on an object an earlier request released
C6_Witness ==
    /\ InFlight(1) /\ InFlight(2)
    /\ req[1].c # req[2].c
    /\ dispatched > Len(ctxs)

----------------------------------------------------------------------------

\* C7: the context acquire returns has empty Params and Locals, whatever
\* earlier requests wrote; before the chain runs, Params holds exactly the
\* bindings of the matched route  (Spec)
C7_NoResidue ==
    \A r \in Slots :
        /\ req[r].pc = "acquired" =>
               /\ ctxs[req[r].c].Params = EmptyMap
               /\ ctxs[req[r].c].Locals = EmptyMap
        /\ req[r].pc = "built" =>
               /\ ctxs[req[r].c].Params =
                      matchPath(routes[req[r].route].Path, req[r].path).params
               /\ ctxs[req[r].c].Locals = EmptyMap

\* the second request acquired the one object on which GET /u/7 had written
\* a local and an extra parameter
C7_Witness ==
    \E r \in Slots :
        /\ req[r].pc = "acquired"
        /\ dispatched = 2 /\ Len(ctxs) = 1
        /\ Count(requestTotal,
                 RequestKey(GET, <<"/", "u", "/", ":", "i", "d">>, StatusOK)) = 1
        /\ ctxs[req[r].c].Params = EmptyMap /\ ctxs[req[r].c].Locals = EmptyMap

----------------------------------------------------------------------------

\* C8: a request releases its context exactly once on every exit path: none
\* while in flight, one when handleRequest has returned or unwound, the object
\* then back in the pool or already with a later request; and the release
\* comes after the request's metrics were recorded: recordMetrics ran, the
\* request counter and, for a failure kind, the error counter have counted it
\* (Spec)
C8_ReleaseAfterMetrics ==
    \A r \in Slots :
        /\ InFlight(r) => req[r].acquires = 1 /\ req[r].releases = 0
        /\ req[r].pc \in {"done", "dead"} =>
               /\ req[r].acquires = 1 /\ req[r].releases = 1
               /\ \/ req[r].c \in pool
                  \/ \E r2 \in Slots : r2 # r /\ InFlight(r2) /\ req[r2].c = req[r].c
               /\ req[r].records = 1
               /\ Count(requestTotal,
                        RequestKey(req[r].method, req[r].mpath, req[r].mstatus)) >= 1
               /\ req[r].mkind # <<>> =>
                      Count(errorTotal,
                            ErrorKey(req[r].method, req[r].mpath, req[r].mkind)) >= 1

----------------------------------------------------------------------------

\* C9: when the chain fails and no status was set, the client receives 500
\* with the generic error body, the request is counted under (method, route
\* pattern, 500) and the failure under handler_error  (Spec)
C9_FailureIs500 ==
    \A r \in Slots :
        (Ran(r) /\ routes[req[r].route].Handlers = <<"hFail">>) =>
            /\ req[r].mkind = HandlerErrorKind
            /\ req[r].statusCode = StatusInternalServerError
            /\ req[r].body = ErrorBody("internal server error")
            /\ req[r].mstatus = StatusInternalServerError
            /\ req[r].pc \in {"recorded", "done"} =>
                   /\ Count(requestTotal,
                            RequestKey(req[r].method, req[r].mpath,
                                       StatusInternalServerError)) >= 1
                   /\ Count(errorTotal,
                            ErrorKey(req[r].method, req[r].mpath, HandlerErrorKind)) >= 1

----------------------------------------------------------------------------

\* C10: a request no route matches is answered 404 with the generic body, runs
\* no handler or middleware, and once recordMetrics was called for it the
\* not_found error counter and the 404 request counter of (method, path) have
\* counted it  (Spec)
C10_NotFoundCounted ==
    \A r \in Slots :
        req[r].mkind = NotFoundKind =>
            /\ req[r].statusCode = StatusNotFound
            /\ req[r].body = ErrorBody("not found")
            /\ req[r].log = <<>>
            /\ req[r].records = 1 =>
                   /\ Count(requestTotal,
                            RequestKey(req[r].method, req[r].path, StatusNotFound)) >= 1
                   /\ Count(errorTotal,
                            ErrorKey(req[r].method, req[r].path, NotFoundKind)) >= 1

----------------------------------------------------------------------------
(* Metrics.IncRequestTotal under concurrent callers: each caller runs the   *)
(* LoadOrStore and then the atomic add, the callers interleave freely.      *)

\* the (method, path, status) a caller records
CallerArgs == {
    [method |-> GET, path |-> <<"/", "p">>, status |-> StatusOK],
    [method |-> GET, path |-> <<"/", "p">>, status |-> StatusNotFound] }

ArgsKey(a) == RequestKey(a.method, a.path, a.status)

InitMetrics ==
    /\ InitApp
    /\ mode = "fn" /\ script = <<>>
    /\ metricsOn = TRUE
    /\ nslots = 0 /\ req = <<>>
    /\ shutdown = NoShutdown
    /\ fnIn = NoFn /\ fnOut = NoFn
    /\ callers \in [1..MaxCallers -> {[pc |-> "start", args |-> a] : a \in CallerArgs}]

\* val, _ := m.requestTotal.LoadOrStore(key, new(int64))
CallerLoadOrStore(i) ==
    /\ callers[i].pc = "start"
    /\ requestTotal' = LoadOrStore(requestTotal, ArgsKey(callers[i].args), 0)
    /\ callers' = [callers EXCEPT ![i].pc = "loaded"]
    /\ UNCHANGED <<appVars, poolVars, req, nslots, dispatched, shutdown,
                   requestLatency, errorTotal, fnVars>>

\* atomic.AddInt64(val.(*int64), 1)
CallerAdd(i) ==
    /\ callers[i].pc = "loaded"
    /\ requestTotal' = AddInt64(requestTotal, ArgsKey(callers[i].args), 1)
    /\ callers' = [callers EXCEPT ![i].pc = "done"]
    /\ UNCHANGED <<appVars, poolVars, req, nslots, dispatched, shutdown,
                   requestLatency, errorTotal, fnVars>>

NextMetrics ==
    \/ \E i \in DOMAIN callers : CallerLoadOrStore(i)
    \/ \E i \in DOMAIN callers : CallerAdd(i)

SpecMetrics == InitMetrics /\ [][NextMetrics]_vars

\* the calls of IncRequestTotal with arguments a that have completed
Completed(a) == {i \in DOMAIN callers : callers[i].pc = "done" /\ callers[i].args = a}

\* C11: the counter of a (method, path, status) equals the number of
\* IncRequestTotal calls with these arguments that have completed, in every
\* interleaving of the callers: after N calls it is exactly N  (SpecMetrics)
C11_NoLostIncrement ==
    \A a \in CallerArgs : Count(requestTotal, ArgsKey(a)) = Cardinality(Completed(a))

\* every caller recorded the same key, all are done, the counter has them all
C11_Witness ==
    /\ callers # <<>>
    /\ \A i \in DOMAIN callers :
           callers[i].pc = "done" /\ callers[i].args = callers[1].args
    /\ Count(requestTotal, ArgsKey(callers[1].args)) = MaxCallers

----------------------------------------------------------------------------
(* Metrics.ObserveLatency under concurrent callers, and a render once they  *)
(* are done.  A caller's pc: "start", "mu" (line 50 passed), "bucket" (line *)
(* 54 passed), "locked", "summed", "counted", "done"; "panicked" when a     *)
(* type assertion failed, which ends the process.                           *)

\* the (method, path, duration in ms) a caller observes
LatencyArgs ==
    {[method |-> GET, path |-> p, ms |-> d] :
        p \in {<<"/", "n">>, <<"/", "n">> \o BucketSuffix}, d \in Durations}

CallerKey(i) == LatencyKey(callers[i].args.method, callers[i].args.path)

InitLatency ==
    /\ InitApp
    /\ mode = "fn" /\ script = <<>>
    /\ metricsOn = TRUE
    /\ nslots = 0 /\ req = <<>>
    /\ shutdown = NoShutdown
    /\ fnIn = NoFn /\ fnOut = NoFn
    /\ callers \in [1..MaxCallers -> {[pc |-> "start", args |-> a] : a \in LatencyArgs}]

latencyFrame == <<routes, routers, appMw, arrays, script, mode, metricsOn, poolVars, req,
                  nslots, dispatched, shutdown, requestTotal, errorTotal, fnIn>>

\* lines 49-50: val, _ := LoadOrStore(key, &sync.Mutex{}); mu := val.(*sync.Mutex)
LatLoadMutex(i) ==
    /\ ~crashed /\ callers[i].pc = "start"
    /\ requestLatency' = LoadOrStore(requestLatency, CallerKey(i), MutexEntry)
    /\ \E ok \in {requestLatency'[CallerKey(i)].kind = "mutex"} :
           /\ callers' = [callers EXCEPT ![i].pc = IF ok THEN "mu" ELSE "panicked"]
           /\ crashed' = ~ok
    /\ UNCHANGED <<latencyFrame, fnOut>>

\* lines 52-54: bucketVal, _ := LoadOrStore(bucketKey, &LatencyBucket{});
\* bucket := bucketVal.(*LatencyBucket)
LatLoadBucket(i) ==
    /\ ~crashed /\ callers[i].pc = "mu"
    /\ requestLatency' = LoadOrStore(requestLatency, CallerKey(i) \o BucketSuffix,
                                     BucketEntry(0, 0))
    /\ \E ok \in {requestLatency'[CallerKey(i) \o BucketSuffix].kind = "bucket"} :
           /\ callers' = [callers EXCEPT ![i].pc = IF ok THEN "bucket" ELSE "panicked"]
           /\ crashed' = ~ok
    /\ UNCHANGED <<latencyFrame, fnOut>>

\* line 56: mu.Lock(), mu being the mutex stored under the caller's key
LatLock(i) ==
    /\ ~crashed /\ callers[i].pc = "bucket"
    /\ \A j \in DOMAIN callers :
           (j # i /\ CallerKey(j) = CallerKey(i)) =>
               callers[j].pc \notin {"locked", "summed", "counted"}
    /\ callers' = [callers EXCEPT ![i].pc = "locked"]
    /\ UNCHANGED <<latencyFrame, requestLatency, crashed, fnOut>>

\* line 57: bucket.sum += float64(duration.Milliseconds())
LatAddSum(i) ==
    /\ ~crashed /\ callers[i].pc = "locked"
    /\ requestLatency' = [requestLatency EXCEPT
                             ![CallerKey(i) \o BucketSuffix].sum = @ + callers[i].args.ms]
    /\ callers' = [callers EXCEPT ![i].pc = "summed"]
    /\ UNCHANGED <<latencyFrame, crashed, fnOut>>

\* line 58: bucket.count++
LatIncCount(i) ==
    /\ ~crashed /\ callers[i].pc = "summed"
    /\ requestLatency' = [requestLatency EXCEPT
                             ![CallerKey(i) \o BucketSuffix].count = @ + 1]
    /\ callers' = [callers EXCEPT ![i].pc = "counted"]
    /\ UNCHANGED <<latencyFrame, crashed, fnOut>>

\* line 59: mu.Unlock()
LatUnlock(i) ==
    /\ ~crashed /\ callers[i].pc = "counted"
    /\ callers' = [callers EXCEPT ![i].pc = "done"]
    /\ UNCHANGED <<latencyFrame, requestLatency, crashed, fnOut>>

\* every ObserveLatency call has returned
Quiescent == \A i \in DOMAIN callers : callers[i].pc = "done"

\* m.ToJSON() with no ObserveLatency call running
RenderJSON ==
    /\ ~crashed /\ Quiescent /\ fnOut.name = "none"
    /\ \E out \in {ToJSONLatencies(requestLatency)} :
           /\ fnOut' = [name |-> "ToJSON", panic |-> out.panic, latencies |-> out.latencies]
           /\ crashed' = out.panic
    /\ UNCHANGED <<latencyFrame, requestLatency, callers>>

NextLatency ==
    \/ \E i \in DOMAIN callers : LatLoadMutex(i)
    \/ \E i \in DOMAIN callers : LatLoadBucket(i)
    \/ \E i \in DOMAIN callers : LatLock(i)
    \/ \E i \in DOMAIN callers : LatAddSum(i)
    \/ \E i \in DOMAIN callers : LatIncCount(i)
    \/ \E i \in DOMAIN callers : LatUnlock(i)
    \/ RenderJSON

SpecLatency == InitLatency /\ [][NextLatency]_vars

----------------------------------------------------------------------------
(* A rendering that runs while ObserveLatency calls for one key are under   *)
(* way.  Neither ToJSON (lines 181-184) nor ToPrometheus (lines 117-122)    *)
(* takes the key's mutex: each reads bucket.count for the test count > 0,   *)
(* then bucket.sum, then bucket.count for the quotient.  fnOut is the       *)
(* rendering call: pc "test", "sum", "count", "done".                       *)

ObservedKey == LatencyKey(GET, <<"/", "n">>)

InitObserve ==
    /\ InitApp
    /\ mode = "fn" /\ script = <<>>
    /\ metricsOn = TRUE
    /\ nslots = 0 /\ req = <<>>
    /\ shutdown = NoShutdown
    /\ fnIn = NoFn /\ fnOut = NoFn
    /\ callers \in [1..MaxCallers ->
                      {[pc |-> "start", args |-> [method |-> GET, path |-> <<"/", "n">>, ms |-> d]] :
                          d \in Durations}]

\* the rendering is called: ToJSON or ToPrometheus
RenderStart ==
    /\ ~crashed /\ fnOut.name = "none"
    /\ \E f \in {"ToJSON", "ToPrometheus"} :
           fnOut' = [name |-> f, pc |-> "test", sum |-> 0, shown |-> FALSE, value |-> <<>>]
    /\ UNCHANGED <<latencyFrame, requestLatency, callers, crashed>>

\* the Range reaches the key's bucket, if it is stored: if bucket.count > 0
RenderTest ==
    /\ ~crashed /\ fnOut.name # "none" /\ fnOut.pc = "test"
    /\ \E b \in {ObservedKey \o BucketSuffix} :
           fnOut' = [fnOut EXCEPT !.pc = IF b \in DOMAIN requestLatency
                                            /\ requestLatency[b].count > 0
                                         THEN "sum" ELSE "done"]
    /\ UNCHANGED <<latencyFrame, requestLatency, callers, crashed>>

\* the read of bucket.sum in bucket.sum / float64(bucket.count)
RenderReadSum ==
    /\ ~crashed /\ fnOut.name # "none" /\ fnOut.pc = "sum"
    /\ fnOut' = [fnOut EXCEPT !.pc = "count",
                              !.sum = requestLatency[ObservedKey \o BucketSuffix].sum]
    /\ UNCHANGED <<latencyFrame, requestLatency, callers, crashed>>

\* the read of bucket.count, the quotient, and its entry in the rendering: the
\* float64 in Latencies for ToJSON, the %.2f print for ToPrometheus
RenderReadCount ==
    /\ ~crashed /\ fnOut.name # "none" /\ fnOut.pc = "count"
    /\ \E n \in {requestLatency[ObservedKey \o BucketSuffix].count} :
           fnOut' = [fnOut EXCEPT !.pc = "done", !.shown = TRUE,
                                  !.value = IF fnOut.name = "ToJSON"
                                            THEN <<Mean(fnOut.sum, n)>>
                                            ELSE <<Sprintf2f(fnOut.sum, n)>>]
    /\ UNCHANGED <<latencyFrame, requestLatency, callers, crashed>>

NextObserve ==
    \/ \E i \in DOMAIN callers : LatLoadMutex(i)
    \/ \E i \in DOMAIN callers : LatLoadBucket(i)
    \/ \E i \in DOMAIN callers : LatLock(i)
    \/ \E i \in DOMAIN callers : LatAddSum(i)
    \/ \E i \in DOMAIN callers : LatIncCount(i)
    \/ \E i \in DOMAIN callers : LatUnlock(i)
    \/ RenderStart
    \/ RenderTest
    \/ RenderReadSum
    \/ RenderReadCount

SpecObserve == InitObserve /\ [][NextObserve]_vars

----------------------------------------------------------------------------
(* The two renderings of one Metrics object between recordMetrics calls.    *)

\* what handleRequest passes to recordMetrics: a status with its error kind
RecordedOutcomes ==
    { [status |-> StatusOK, errorType |-> <<>>],
      [status |-> StatusNotFound, errorType |-> NotFoundKind],
      [status |-> StatusInternalServerError, errorType |-> HandlerErrorKind] }

RecordedPaths == {<<"/", "n">>, <<"/", "n">> \o BucketSuffix, <<"/", "a", "_", "b">>}

InitRender ==
    /\ InitApp
    /\ mode = "fn" /\ script = <<>>
    /\ metricsOn = TRUE
    /\ nslots = 0 /\ req = <<>>
    /\ shutdown = NoShutdown
    /\ callers = <<>>
    /\ fnIn = NoFn /\ fnOut = NoFn

renderFrame == <<routes, routers, appMw, arrays, script, mode, metricsOn, poolVars, req,
                 nslots, shutdown, callers>>

\* the arguments of the recordMetrics calls made so far
RecordedCalls == IF fnIn.name = "none" THEN {} ELSE fnIn.calls

\* one complete recordMetrics call (part_002, lines 228-237)
RenderRecord ==
    /\ ~crashed /\ dispatched < MaxCallers
    /\ \E path \in RecordedPaths, o \in RecordedOutcomes, ms \in Durations :
         \E m \in {recordMetrics(metricsOn, requestTotal, requestLatency, errorTotal,
                                  GET, path, o.status, ms, o.errorType)} :
           /\ requestTotal' = m.requestTotal
           /\ requestLatency' = m.requestLatency
           /\ errorTotal' = m.errorTotal
           /\ crashed' = m.panic
           /\ fnIn' = [name |-> "recordMetrics",
                       calls |-> RecordedCalls \cup
                                   {[method |-> GET, path |-> path, status |-> o.status,
                                     errorType |-> o.errorType]}]
    /\ dispatched' = dispatched + 1
    /\ UNCHANGED <<renderFrame, fnOut>>

\* m.ToJSON() and m.ToPrometheus() of the same state, no call running; calls
\* are the recordMetrics calls the renderings were taken after
RenderBoth ==
    /\ ~crashed
    /\ \E j \in {ToJSON(requestTotal, requestLatency, errorTotal)} :
       \E t \in {ToPrometheus(requestTotal, requestLatency, errorTotal)} :
           fnOut' = [name |-> "render", json |-> j, text |-> t, calls |-> RecordedCalls]
    /\ UNCHANGED <<renderFrame, requestTotal, requestLatency, errorTotal, crashed,
                   dispatched, fnIn>>

NextRender ==
    \/ RenderRecord
    \/ RenderBoth

SpecRender == InitRender /\ [][NextRender]_vars

----------------------------------------------------------------------------
(* Router.add and Router.find under concurrent callers.  An adding caller's *)
(* pc: "start", "built" (the Route of lines 48-54 is constructed),          *)
(* "wlocked" (line 55), "read" (append has read *r.routes), "stored" (line  *)
(* 56 has assigned *r.routes), "done"; a finding caller's: "start",         *)
(* "rlocked" (line 61), "scanned" (the loop has ended), "done".             *)

\* the calls the callers make on the app's router
TableOps == {
    [kind |-> "add", method |-> GET, path |-> <<"/", "a">>],
    [kind |-> "add", method |-> GET, path |-> <<"/", ":", "x">>],
    [kind |-> "find", method |-> GET, path |-> <<"/", "a">>],
    [kind |-> "find", method |-> POST, path |-> <<"/", "a">>] }

NoResult == [route |-> 0, value |-> <<>>]

InitTable ==
    /\ InitApp
    /\ mode = "fn" /\ script = <<>>
    /\ metricsOn = FALSE
    /\ nslots = 0 /\ req = <<>>
    /\ shutdown = NoShutdown
    /\ fnIn = NoFn /\ fnOut = NoFn
    /\ callers \in [1..MaxCallers ->
                       {[pc |-> "start", kind |-> o.kind, method |-> o.method,
                         path |-> o.path, built |-> <<>>, old |-> <<>>,
                         result |-> NoResult] : o \in TableOps}]

tableFrame == <<routers, appMw, arrays, script, mode, metricsOn, crashed, poolVars, req,
                nslots, dispatched, shutdown, metricVars, fnVars>>

WriteLocked(j) == callers[j].pc \in {"wlocked", "read", "stored"}

ReadLocked(j) == callers[j].pc \in {"rlocked", "scanned"}

\* a lock that excludes nobody
NoExclusion(i) == TRUE

\* r.mu.Lock() can return: nobody else holds the lock, for writing or reading
CanLock(i) == \A j \in DOMAIN callers : j # i => ~WriteLocked(j) /\ ~ReadLocked(j)

\* r.mu.RLock() can return: nobody holds the lock for writing
CanRLock(i) == \A j \in DOMAIN callers : j # i => ~WriteLocked(j)

\* lines 48-54: route := &Route{...}
TableBuild(i) ==
    /\ callers[i].kind = "add" /\ callers[i].pc = "start"
    /\ callers' = [callers EXCEPT
                      ![i].pc = "built",
                      ![i].built = <<RouteOf(routers[1], callers[i].method, callers[i].path,
                                             <<"hOK">>)>>]
    /\ UNCHANGED <<tableFrame, routes>>

\* line 55: r.mu.Lock()
TableLock(i) ==
    /\ callers[i].kind = "add" /\ callers[i].pc = "built"
    /\ CanLock(i)
    /\ callers' = [callers EXCEPT ![i].pc = "wlocked"]
    /\ UNCHANGED <<tableFrame, routes>>

\* line 56, append(*r.routes, route): the slice is read
TableRead(i) ==
    /\ callers[i].kind = "add" /\ callers[i].pc = "wlocked"
    /\ callers' = [callers EXCEPT ![i].pc = "read", ![i].old = routes]
    /\ UNCHANGED <<tableFrame, routes>>

\* line 56, *r.routes = ...: the slice read, one longer, is stored
TableStore(i) ==
    /\ callers[i].kind = "add" /\ callers[i].pc = "read"
    /\ routes' = Append(callers[i].old, callers[i].built[1])
    /\ callers' = [callers EXCEPT ![i].pc = "stored"]
    /\ UNCHANGED tableFrame

\* line 57: r.mu.Unlock()
TableUnlock(i) ==
    /\ callers[i].kind = "add" /\ callers[i].pc = "stored"
    /\ callers' = [callers EXCEPT ![i].pc = "done"]
    /\ UNCHANGED <<tableFrame, routes>>

\* line 61: r.mu.RLock()
TableRLock(i) ==
    /\ callers[i].kind = "find" /\ callers[i].pc = "start"
    /\ CanRLock(i)
    /\ callers' = [callers EXCEPT ![i].pc = "rlocked"]
    /\ UNCHANGED <<tableFrame, routes>>

\* lines 64-73: the scan, returning the route found (a pointer: its place in
\* the table and what it points to) or nil
TableScan(i) ==
    /\ callers[i].kind = "find" /\ callers[i].pc = "rlocked"
    /\ \E f \in {find(routes, callers[i].method, callers[i].path)} :
           callers' = [callers EXCEPT
                         ![i].pc = "scanned",
                         ![i].result = IF f.route = 0 THEN NoResult
                                       ELSE [route |-> f.route,
                                             value |-> <<routes[f.route]>>]]
    /\ UNCHANGED <<tableFrame, routes>>

\* line 62: the deferred r.mu.RUnlock()
TableRUnlock(i) ==
    /\ callers[i].kind = "find" /\ callers[i].pc = "scanned"
    /\ callers' = [callers EXCEPT ![i].pc = "done"]
    /\ UNCHANGED <<tableFrame, routes>>

NextTable ==
    \/ \E i \in DOMAIN callers : TableBuild(i)
    \/ \E i \in DOMAIN callers : TableLock(i)
    \/ \E i \in DOMAIN callers : TableRead(i)
    \/ \E i \in DOMAIN callers : TableStore(i)
    \/ \E i \in DOMAIN callers : TableUnlock(i)
    \/ \E i \in DOMAIN callers : TableRLock(i)
    \/ \E i \in DOMAIN callers : TableScan(i)
    \/ \E i \in DOMAIN callers : TableRUnlock(i)

SpecTable == InitTable /\ [][NextTable]_vars

----------------------------------------------------------------------------

\* C12: no failure below the chain's execution escapes handleRequest: whatever
\* a handler or middleware does (return, error, panic), handleRequest is never
\* unwound by a panic, the process lives on, and a request that ran a chain
\* finishes with a response status set and its metrics recorded  (Spec)
C12_FailuresRecovered ==
    /\ ~crashed
    /\ \A r \in Slots :
           /\ req[r].pc \notin {"panicking", "dead"}
           /\ (req[r].pc = "done" /\ req[r].route # 0) =>
                  /\ req[r].mstatus \in 100..599
                  /\ req[r].records = 1

----------------------------------------------------------------------------

BearerTok == <<"B", "e", "a", "r", "e", "r", " ", "t", "o", "k">>

\* which credential the fixed priority selects for the request
KeyApplies == fnIn.key # <<>> /\ AuthConfigOf(fnIn.mw).APIKeyValidator

BearerApplies ==
    /\ ~KeyApplies
    /\ HasPrefix(fnIn.auth, BearerPrefix)
    /\ AuthConfigOf(fnIn.mw).BearerValidator

BasicApplies ==
    /\ ~KeyApplies /\ ~BearerApplies
    /\ HasPrefix(fnIn.auth, BasicPrefix)
    /\ AuthConfigOf(fnIn.mw).BasicValidator

\* next ran on a context carrying the Auth Result of the given type
Admitted(type) ==
    /\ NextInvoked
    /\ fnOut.c.Auth.Type = type /\ fnOut.c.Auth.Valid
    /\ fnOut.c.statusCode = StatusOK

Rejected ==
    /\ ~NextInvoked /\ ~AuthAttached
    /\ fnOut.c.statusCode = StatusUnauthorized
    /\ fnOut.c.Auth = fnIn.prior

\* C13: the combined Auth middleware checks one credential, chosen by the
\* priority API key, Bearer, Basic: a non-empty key header with a configured
\* key validator decides alone, whatever the Authorization header holds; a
\* Bearer header is checked only otherwise, a Basic header only when Bearer
\* was not applicable; with no applicable credential the answer is 401
\* (SpecAuth)
C13_AuthPriority ==
    (fnOut.name = "auth" /\ fnIn.mw \in CombinedStrategies) =>
        /\ KeyApplies =>
               IF fnIn.key = <<"k", "e", "y", "1">>
               THEN Admitted("apikey") /\ fnOut.c.Auth.Value = fnIn.key
               ELSE Rejected
        /\ BearerApplies =>
               IF fnIn.auth = BearerTok
               THEN Admitted("bearer") /\ fnOut.c.Auth.Value = <<"t", "o", "k">>
               ELSE Rejected
        /\ BasicApplies =>
               IF fnIn.auth = BasicAdminSecret
               THEN Admitted("basic") /\ fnOut.c.Auth.Username = <<"a", "d", "m", "i", "n">>
               ELSE Rejected
        /\ (~KeyApplies /\ ~BearerApplies /\ ~BasicApplies) => Rejected

\* a valid key next to a Bearer token the validator rejects: admitted by the key
C13_Witness ==
    /\ fnOut.name = "auth" /\ fnIn.mw = "Auth"
    /\ fnIn.key = <<"k", "e", "y", "1">>
    /\ fnIn.auth = <<"B", "e", "a", "r", "e", "r", " ", "n", "o">>
    /\ Admitted("apikey")

----------------------------------------------------------------------------

\* the chain of request r has run to its end or was unwound
Executed(r) ==
    /\ req[r].pc \in {"record", "recorded", "done", "panicking", "dead"}
    /\ req[r].route # 0

----------------------------------------------------------------------------

\* the handlers that report a failure
FailingHandlers == {"hFail", "hBad"}

\* the middlewares of the chain that do not invoke their wrapped handler
Stops(name) == name = "Deny" \/ (name = "BasicAuth" /\ fnIn.auth = <<>>)

\* position of the first element of s satisfying the test, 0 when there is none
FirstFailing(hs) ==
    IF \E k \in 1..Len(hs) : hs[k] \in FailingHandlers
    THEN CHOOSE k \in 1..Len(hs) :
             /\ hs[k] \in FailingHandlers
             /\ \A j \in 1..(k - 1) : hs[j] \notin FailingHandlers
    ELSE 0

FirstStop(mws) ==
    IF \E k \in 1..Len(mws) : Stops(mws[k])
    THEN CHOOSE k \in 1..Len(mws) :
             /\ Stops(mws[k])
             /\ \A j \in 1..(k - 1) : ~Stops(mws[j])
    ELSE 0

\* C15: when the chain of a route with handlers [h1..hn] reaches its handlers,
\* they run in order up to and including the first one that reports a
\* failure, no later handler runs and that failure is the chain's result; if
\* none fails all of them run and the result is hn's (no failure)  (SpecChain)
C15_HandlersInOrder ==
    (fnOut.name = "chain" /\ FirstStop(fnIn.mws) = 0) =>
        LET hs == fnIn.handlers
            k == FirstFailing(hs)
        IN  /\ HandlersRun(fnOut.c.log) = SubSeq(hs, 1, IF k = 0 THEN Len(hs) ELSE k)
            /\ fnOut.c.err = (IF k = 0 THEN "nil" ELSE "error")
            /\ (k # 0 /\ hs[k] = "hBad") => fnOut.c.statusCode = StatusBadRequest

\* a failing handler in the middle of three
C15_Witness ==
    /\ fnOut.name = "chain"
    /\ fnIn.mws = <<"A">>
    /\ fnIn.handlers = <<"hOK", "hFail", "hOK">>
    /\ HandlersRun(fnOut.c.log) = <<"hOK", "hFail">>
    /\ fnOut.c.err = "error"

----------------------------------------------------------------------------

\* the middlewares that logged their entry, in order
Entered(log) ==
    LET ran == SelectSeq(log, LAMBDA e : e[1] \in {"before", "deny"})
    IN  [i \in 1..Len(ran) |-> ran[i][2]]

\* C16: when a middleware of the chain returns without invoking its wrapped
\* handler (BasicAuth answering 401) or returns a failure instead (Deny), no
\* middleware after it and no handler of the route runs  (SpecChain)
C16_ShortCircuit ==
    (fnOut.name = "chain" /\ FirstStop(fnIn.mws) # 0) =>
        LET k == FirstStop(fnIn.mws)
        IN  /\ HandlersRun(fnOut.c.log) = <<>>
            /\ Entered(fnOut.c.log) =
                   SelectSeq(SubSeq(fnIn.mws, 1, k), LAMBDA n : n # "BasicAuth")
            /\ fnOut.c.err = (IF fnIn.mws[k] = "Deny" THEN "error" ELSE "nil")
            /\ fnIn.mws[k] = "BasicAuth" => fnOut.c.statusCode = StatusUnauthorized

\* BasicAuth without credentials in front of a logging middleware
C16_Witness ==
    /\ fnOut.name = "chain"
    /\ fnIn.mws = <<"BasicAuth", "A">>
    /\ fnIn.auth = <<>>
    /\ fnOut.c.statusCode = StatusUnauthorized
    /\ fnOut.c.log = <<>>

----------------------------------------------------------------------------

\* request r's recordMetrics call is this step
Recording(r) == req[r].pc = "record" /\ req'[r].pc # "record"

\* the status a handler that reports no failure leaves: 0 stands for unset
StatusSetBy(h) == IF h = "hCreated" THEN 201 ELSE 0

\* C17: when the chain of a matched route returned no failure, recordMetrics
\* counts the request once under (method, pattern, 200) if the handler set no
\* status and under the status it set otherwise, and no error counter
\* changes  (SpecStatus)
C17_StatusRecorded ==
    [][\A r \in Slots :
          (Recording(r) /\ req[r].route # 0
             /\ routes[req[r].route].Handlers \in {<<"hNone">>, <<"hCreated">>}) =>
              LET set == StatusSetBy(routes[req[r].route].Handlers[1])
                  status == IF set = 0 THEN StatusOK ELSE set
                  key == RequestKey(req[r].method, routes[req[r].route].Path, status)
              IN  /\ req[r].mkind = <<>>
                  /\ req[r].mstatus = status
                  /\ Count(requestTotal', key) = Count(requestTotal, key) + 1
                  /\ \A k \in DOMAIN requestTotal' :
                         k # key => Count(requestTotal', k) = Count(requestTotal, k)
                  /\ errorTotal' = errorTotal]_vars

\* both cases recorded: /a with no status set under 200, /b under its 201
C17_Witness ==
    /\ Count(requestTotal, RequestKey(GET, <<"/", "a">>, StatusOK)) = 1
    /\ Count(requestTotal, RequestKey(GET, <<"/", "b">>, 201)) = 1
    /\ errorTotal = EmptyMap
    /\ req[1].pc = "done"

----------------------------------------------------------------------------

\* C18: when the chain of a matched route fails after the handler set 400,
\* status and body stay the handler's, and once recordMetrics was called for
\* the request it is counted under (method, pattern, 400) and the handler_error
\* counter of (method, pattern) has counted it  (SpecStatus)
C18_FailureKeepsStatus ==
    \A r \in Slots :
        (Executed(r) /\ routes[req[r].route].Handlers = <<"hBad">>) =>
            /\ req[r].statusCode = StatusBadRequest
            /\ req[r].body = ErrorBody("bad request")
            /\ req[r].mstatus = StatusBadRequest
            /\ req[r].mkind = HandlerErrorKind
            /\ req[r].records = 1 =>
                   /\ Count(requestTotal,
                            RequestKey(req[r].method, req[r].mpath, StatusBadRequest)) >= 1
                   /\ Count(errorTotal,
                            ErrorKey(req[r].method, req[r].mpath, HandlerErrorKind)) >= 1

----------------------------------------------------------------------------

\* the registration the program performs in this step
Registering(op) == script # <<>> /\ script' = Tail(script) /\ Head(script).op = op

\* C19: Group on a router creates a router whose prefix is the parent's prefix
\* followed by the argument and whose middleware is the parent's list at that
\* moment, at any depth; a route is registered under its router's prefix with
\* the router's middleware of that moment; Use on a router changes that router
\* only, neither the routers created from it nor any route already
\* registered, and a request runs the middleware its route was registered
\* with  (SpecGroups)
C19_GroupSnapshot ==
    [][/\ Registering("Group") =>
              LET o == Head(script)
              IN  /\ routers' = Append(routers,
                                       [prefix |-> routers[o.r].prefix \o o.path,
                                        middleware |-> routers[o.r].middleware])
                  /\ routes' = routes
       /\ Registering("RouterUse") =>
              LET o == Head(script)
              IN  /\ Len(routers') = Len(routers)
                  /\ routers'[o.r].middleware = routers[o.r].middleware \o o.list
                  /\ \A j \in 1..Len(routers) : j # o.r => routers'[j] = routers[j]
                  /\ routes' = routes
       /\ Registering("Add") =>
              LET o == Head(script)
                  new == routes'[Len(routes')]
              IN  /\ Len(routes') = Len(routes) + 1
                  /\ SubSeq(routes', 1, Len(routes)) = routes
                  /\ new.Path = routers[o.r].prefix \o o.path
                  /\ new.middleware = routers[o.r].middleware
                  /\ routers' = routers
       /\ \A r \in Slots :
              (req[r].pc = "built" /\ req'[r].pc = "record") =>
                  req'[r].log =
                      Entries("before", routes[req[r].route].middleware)
                      \o <<<<"handler", "hOK">>>>
                      \o Entries("after", Reverse(routes[req[r].route].middleware))]_vars

\* h was created from g between g.Use(A) and g.Use(B) and k from h before
\* h.Use(C): h and k and their routes carry A alone, at the accumulated
\* prefixes, and the request to k's route has run A alone
C19_Witness ==
    /\ script = <<>>
    /\ routers[2] = [prefix |-> <<"/", "v">>, middleware |-> <<"A", "B">>]
    /\ routers[3] = [prefix |-> <<"/", "v", "/", "w">>, middleware |-> <<"A", "C">>]
    /\ routers[4] = [prefix |-> <<"/", "v", "/", "w", "/", "z">>, middleware |-> <<"A">>]
    /\ routes[1].Path = <<"/", "v", "/", "w", "/", "r">> /\ routes[1].middleware = <<"A">>
    /\ routes[2].Path = <<"/", "v", "/", "w", "/", "z", "/", "r">>
    /\ routes[2].middleware = <<"A">>
    /\ routes[3].Path = <<"/", "v", "/", "r">> /\ routes[3].middleware = <<"A", "B">>
    /\ req[1].pc = "done" /\ req[1].route = 2
    /\ req[1].log = <<<<"before", "A">>, <<"handler", "hOK">>, <<"after", "A">>>>

----------------------------------------------------------------------------

\* request r is in a handler that never returns
Blocked(r) ==
    /\ req[r].pc = "built"
    /\ Call(buildChain(routes[req[r].route].Handlers, Elems(req[r].allMw, arrays)),
            CallState(ctxs[req[r].c], req[r])).err = "block"

\* some step of App.Shutdown or of its goroutine is possible
ShutdownCanStep ==
    \/ shutdown.pc = "select"
    \/ shutdown.pc = "forcing" /\ ServerIdle

\* C20: Shutdown always terminates: in every state in which it was called and
\* has not returned, either a step of Shutdown is possible or the only thing
\* it waits for is a dispatch that is still running towards its end; a
\* dispatch blocked for ever in its handler does not keep it from returning
\* after the grace period  (SpecShutdown)
C20_ShutdownTerminates ==
    (~crashed /\ shutdown.pc \in {"select", "forcing"}) =>
        \/ ShutdownCanStep
        \/ \A r \in Slots : ~Blocked(r)

----------------------------------------------------------------------------

\* all callers observe one (method, path) key
OneKey == \A i \in DOMAIN callers : CallerKey(i) = CallerKey(1)

RECURSIVE SumMs(_)
\* the sum of the durations of the callers in S
SumMs(S) ==
    IF S = {} THEN 0
    ELSE LET i == CHOOSE x \in S : TRUE
         IN  callers[i].args.ms + SumMs(S \ {i})

\* C21: when the callers all observe one key, in every interleaving its
\* accumulator's sum is that of the durations added and its count the number
\* of increments made, so that after N calls they are the N durations' sum and
\* N; a render then made reports that key alone, with the mean sum / count
\* (SpecLatency)
C21_LatencyAccumulates ==
    (callers # <<>> /\ OneKey) =>
        LET b == CallerKey(1) \o BucketSuffix
            summed == {i \in DOMAIN callers : callers[i].pc \in {"summed", "counted", "done"}}
            counted == {i \in DOMAIN callers : callers[i].pc \in {"counted", "done"}}
        IN  /\ ~crashed
            /\ \A i \in DOMAIN callers : callers[i].pc # "panicked"
            /\ b \in DOMAIN requestLatency =>
                   requestLatency[b] = BucketEntry(SumMs(summed), Cardinality(counted))
            /\ Quiescent => b \in DOMAIN requestLatency
            /\ fnOut.name = "ToJSON" =>
                   /\ ~fnOut.panic
                   /\ DOMAIN fnOut.latencies = {CallerKey(1)}
                   /\ fnOut.latencies[CallerKey(1)] =
                          Mean(SumMs(DOMAIN callers), Len(callers))

----------------------------------------------------------------------------

\* the adding callers whose assignment of *r.routes has been made
Stored == {i \in DOMAIN callers :
              callers[i].kind = "add" /\ callers[i].pc \in {"stored", "done"}}

\* a Route with all four fields set
FullRoute(rt) ==
    /\ DOMAIN rt = {"Method", "Path", "Handlers", "middleware"}
    /\ rt.Method \in {GET, POST}
    /\ rt.Path # <<>>
    /\ rt.Handlers # <<>>

\* C22: in every interleaving of add and find calls the table only grows at
\* its end, it holds one entry for each add whose append was made (none is
\* lost, none overwritten), and what find returns is nil or a Route of the
\* table with method, full path, handlers and middleware all set
\* (SpecTable)
C22_TableConsistent ==
    [][/\ Len(routes') >= Len(routes)
       /\ SubSeq(routes', 1, Len(routes)) = routes
       /\ Len(routes') = Cardinality({i \in DOMAIN callers' :
                             callers'[i].kind = "add"
                             /\ callers'[i].pc \in {"stored", "done"}})
       /\ \A i \in DOMAIN callers' :
              (callers'[i].kind = "add" /\ callers'[i].pc \in {"stored", "done"}) =>
                  \E k \in 1..Len(routes') : routes'[k] = callers'[i].built[1]
       /\ \A i \in DOMAIN callers' :
              (callers'[i].kind = "find" /\ callers'[i].pc \in {"scanned", "done"}) =>
                  \/ callers'[i].result = NoResult
                  \/ /\ callers'[i].result.route \in 1..Len(routes')
                     /\ routes'[callers'[i].result.route] = callers'[i].result.value[1]
                     /\ FullRoute(callers'[i].result.value[1])
                     /\ callers'[i].result.value[1].Method = callers'[i].method]_vars

\* two adds and a find have run together: both routes are in the table, in
\* the order of their appends, and the find returned the first of them
C22_Witness ==
    /\ \A i \in DOMAIN callers : callers[i].pc = "done"
    /\ Cardinality(Stored) = 2
    /\ Len(routes) = 2
    /\ routes[1].Path = <<"/", ":", "x">> /\ routes[2].Path = <<"/", "a">>
    /\ \E i \in DOMAIN callers :
           /\ callers[i].kind = "find"
           /\ callers[i].result.route = 1
           /\ callers[i].result.value[1] = routes[1]

----------------------------------------------------------------------------

\* a pattern that is empty or has a parameter segment without a name
Malformed(pattern) ==
    \/ pattern = <<>>
    \/ \E i \in 1..Len(Split(pattern)) : Split(pattern)[i] = <<":">>

\* C23: add on a well-formed pattern appends exactly one Route, at the end of
\* the table; on a malformed one (empty, or with a segment ":" that names no
\* parameter) it fails and leaves the table as it was  (SpecRegister)
C23_RegisterValidates ==
    fnOut.name = "add" =>
        IF Malformed(fnIn.pattern)
        THEN fnOut.failed /\ routes = <<>>
        ELSE /\ ~fnOut.failed
             /\ routes = <<[Method |-> fnIn.method, Path |-> fnIn.pattern,
                            Handlers |-> <<"hOK">>, middleware |-> <<>>]>>

----------------------------------------------------------------------------

\* the validator the priority selects is configured and accepts the credential
Accepted ==
    \/ KeyApplies /\ fnIn.key = <<"k", "e", "y", "1">>
    \/ BearerApplies /\ fnIn.auth = BearerTok
    \/ BasicApplies /\ fnIn.auth = BasicAdminSecret

\* the strategies whose validator is configured
EnabledTypes ==
    {t \in {"apikey", "bearer", "basic"} :
        CASE t = "apikey" -> AuthConfigOf(fnIn.mw).APIKeyValidator
          [] t = "bearer" -> AuthConfigOf(fnIn.mw).BearerValidator
          [] OTHER -> AuthConfigOf(fnIn.mw).BasicValidator}

\* C24: in the combined Auth middleware, for every subset of configured
\* validators, a credential whose validator is nil admits nobody (the Auth
\* Result attached is always of a configured strategy), and whenever no branch
\* is applicable or the chosen validator refuses, the response is 401, next
\* is not invoked and no Auth Result is attached  (SpecAuth)
C24_NilDisablesBranch ==
    (fnOut.name = "auth" /\ fnIn.mw \in CombinedStrategies) =>
        /\ NextInvoked => Accepted /\ fnOut.c.Auth.Type \in EnabledTypes
        /\ AuthAttached => fnOut.c.Auth.Type \in EnabledTypes
        /\ ~Accepted =>
               /\ fnOut.c.statusCode = StatusUnauthorized
               /\ fnOut.c.body.kind = "error"
               /\ ~NextInvoked
               /\ ~AuthAttached

\* the valid Basic credential under a configuration without a Basic validator
C24_Witness ==
    /\ fnOut.name = "auth" /\ fnIn.mw = "AuthKeyBearer"
    /\ fnIn.key = <<>> /\ fnIn.auth = BasicAdminSecret
    /\ fnOut.c.statusCode = StatusUnauthorized
    /\ ~NextInvoked

----------------------------------------------------------------------------

\* request r went to a route behind BasicAuth without credentials
RejectedByAuth(r) ==
    /\ req[r].route # 0
    /\ routes[req[r].route].middleware = <<"BasicAuth">>
    /\ "Authorization" \notin DOMAIN req[r].headers

----------------------------------------------------------------------------

\* the key a line of the text rendering stands for: its labels joined again
LineKey(line) ==
    IF Len(line.labels) = 3
    THEN line.labels[1] \o Underscore \o line.labels[2] \o Underscore \o line.labels[3]
    ELSE line.labels[1] \o Underscore \o line.labels[2]

\* the counter lines of the text rendering carry the keys and values of map m
SameCounters(lines, m) ==
    /\ {LineKey(l) : l \in lines} = DOMAIN m
    /\ \A l \in lines : l.value = m[LineKey(l)]

\* both renderings were taken and neither panicked
Rendered == fnOut.name = "render" /\ ~fnOut.json.panic /\ ~fnOut.text.panic

----------------------------------------------------------------------------

\* every counter of map m is still in m' and has not gone down
Monotone(m, n) == \A k \in DOMAIN m : k \in DOMAIN n /\ n[k] >= m[k]

\* C27: no step of the application removes a request counter or an error
\* counter or lowers its value  (Spec)
C27_CountersMonotone ==
    [][Monotone(requestTotal, requestTotal') /\ Monotone(errorTotal, errorTotal')]_vars

\* a request counter was incremented twice and an error counter exists
C27_Witness ==
    /\ \E k \in DOMAIN requestTotal : requestTotal[k] = 2
    /\ errorTotal # EmptyMap

----------------------------------------------------------------------------

\* handleRequest has looked request r up in the route table
LookedUp(r) == req[r].pc \notin {"idle", "acquired"}

\* C28: a pattern and a path that differ by a trailing slash do not match, in
\* either direction: with GET /a and GET /b/ registered, GET /a/ and GET /b
\* find no route and are answered 404 under not_found, while GET /a and
\* GET /b/ reach their routes  (SpecSlash)
C28_TrailingSlashDistinct ==
    /\ ~matchPath(<<"/", "a">>, <<"/", "a", "/">>).ok
    /\ ~matchPath(<<"/", "a", "/">>, <<"/", "a">>).ok
    /\ \A r \in Slots :
          LookedUp(r) =>
              /\ req[r].path \in {<<"/", "a", "/">>, <<"/", "b">>} =>
                     /\ req[r].route = 0
                     /\ req[r].statusCode = StatusNotFound
                     /\ req[r].body = ErrorBody("not found")
                     /\ req[r].mstatus = StatusNotFound
                     /\ req[r].mkind = NotFoundKind
                     /\ req[r].mpath = req[r].path
              /\ req[r].path = <<"/", "a">> => req[r].route = 1
              /\ req[r].path = <<"/", "b", "/">> => req[r].route = 2

\* GET /a/ and GET /b were both served and counted as not found, after a
\* GET /a that reached its route
C28_Witness ==
    /\ req[1].pc = "done" /\ req[1].route = 0
    /\ Count(requestTotal, RequestKey(GET, <<"/", "a", "/">>, StatusNotFound)) = 1
    /\ Count(requestTotal, RequestKey(GET, <<"/", "b">>, StatusNotFound)) = 1
    /\ Count(errorTotal, ErrorKey(GET, <<"/", "a", "/">>, NotFoundKind)) = 1
    /\ Count(requestTotal, RequestKey(GET, <<"/", "a">>, StatusOK)) = 1

----------------------------------------------------------------------------

\* C29: while requests to different routes are dispatched concurrently, the
\* middleware sequence a request's chain is built from is the global list
\* followed by its own route's middleware, whatever append another request
\* performs in between, and the global list stays what Use made it
\* (SpecShare)
C29_ChainIsolated ==
    /\ \A r \in Slots :
           req[r].pc = "built" =>
               Elems(req[r].allMw, arrays) =
                   Elems(appMw, arrays) \o routes[req[r].route].middleware
    /\ script = <<>> => Elems(appMw, arrays) = <<"A", "B", "C">>

\* the global list alone is never changed by a dispatch
C29_GlobalListKept ==
    script = <<>> => Elems(appMw, arrays) = <<"A", "B", "C">>

\* GET /s/x without credentials was answered 200 by its handler
C29_Bypass ==
    \E r \in Slots :
        /\ req[r].pc = "done" /\ req[r].path = <<"/", "s", "/", "x">>
        /\ req[r].statusCode = StatusOK

----------------------------------------------------------------------------

\* the chain of request r ran the global middleware A first, and BasicAuth
\* answered 401 if the route is behind it and the request has no credentials
PassedMiddleware(r) ==
    /\ req[r].log # <<>> /\ req[r].log[1] = <<"before", "A">>
    /\ ("Authorization" \notin DOMAIN req[r].headers
          /\ routes[req[r].route].middleware = <<"BasicAuth">>) =>
           req[r].statusCode = StatusUnauthorized

\* C30: every request that matched a route went through the global
\* middleware and the route's middleware, whatever the number of handlers of
\* the route, none included  (SpecEmpty)
C30_MiddlewareNeverSkipped ==
    \A r \in Slots : Executed(r) => PassedMiddleware(r)

\* the same for the routes registered with at least one handler
C30_HandledRoutes ==
    \A r \in Slots :
        (Executed(r) /\ routes[req[r].route].Handlers # <<>>) => PassedMiddleware(r)

----------------------------------------------------------------------------

\* the callers that observe the key of caller i
SameKey(i) == {j \in DOMAIN callers : CallerKey(j) = CallerKey(i)}

\* C31: ObserveLatency never fails and the accumulators of distinct keys are
\* independent, for the paths /n and /n_bucket too: no call panics, the entry
\* under a caller's key is a lock and the one under its bucket key an
\* accumulator, holding the sum and count of the observations of that key
\* alone  (SpecLatency)
C31_LatencyIndependent ==
    /\ \A i \in DOMAIN callers : callers[i].pc # "panicked"
    /\ \A i \in DOMAIN callers :
           LET b == CallerKey(i) \o BucketSuffix
           IN  /\ CallerKey(i) \in DOMAIN requestLatency =>
                      requestLatency[CallerKey(i)].kind = "mutex"
               /\ b \in DOMAIN requestLatency =>
                      requestLatency[b] =
                          BucketEntry(
                              SumMs({j \in SameKey(i) :
                                        callers[j].pc \in {"summed", "counted", "done"}}),
                              Cardinality({j \in SameKey(i) :
                                              callers[j].pc \in {"counted", "done"}}))

----------------------------------------------------------------------------

\* the non-empty sets of observations
ObservationSets == (SUBSET DOMAIN callers) \ {{}}

\* C32: a rendering that runs beside ObserveLatency calls reports for the key
\* the mean of some set of k observations, (sum of their durations) / k, never
\* a sum and a count taken from different sets  (SpecObserve)
C32_RenderAtomic ==
    (fnOut.name # "none" /\ fnOut.pc = "done" /\ fnOut.shown) =>
        \E S \in ObservationSets :
            fnOut.value = IF fnOut.name = "ToJSON"
                          THEN <<Mean(SumMs(S), Cardinality(S))>>
                          ELSE <<Sprintf2f(SumMs(S), Cardinality(S))>>

----------------------------------------------------------------------------

RECURSIVE SumCounters(_)
\* the sum of all counters of map m
SumCounters(m) ==
    IF DOMAIN m = {} THEN 0
    ELSE LET k == CHOOSE x \in DOMAIN m : TRUE
         IN  m[k] + SumCounters([x \in (DOMAIN m) \ {k} |-> m[x]])

\* the latency observations held by the accumulators of map lat
Observations(lat) ==
    SumCounters([k \in {x \in DOMAIN lat : lat[x].kind = "bucket"} |-> lat[k].count])

\* the dispatches that have passed the point where handleRequest records
PastRecording ==
    dispatched - Cardinality({r \in Slots : req[r].pc \in {"acquired", "built", "record"}})

\* the recordMetrics call of request r: one request counter and one latency
\* observation more, and one error counter more exactly for an error kind
RecordsOnce(r) ==
    /\ SumCounters(requestTotal') = SumCounters(requestTotal) + 1
    /\ Observations(requestLatency') = Observations(requestLatency) + 1
    /\ SumCounters(errorTotal') =
           SumCounters(errorTotal) + (IF req[r].mkind = <<>> THEN 0 ELSE 1)
    /\ req[r].mkind # <<>> =>
           /\ req[r].mkind \in {NotFoundKind, HandlerErrorKind}
           /\ Count(errorTotal', ErrorKey(req[r].method, req[r].mpath, req[r].mkind)) =
                  Count(errorTotal, ErrorKey(req[r].method, req[r].mpath, req[r].mkind)) + 1

\* C33: with metrics enabled every dispatch, on every exit path, is recorded
\* once: the request counters and the latency observations each sum to the
\* number of dispatches that left handleRequest's recording point, and each
\* recordMetrics call adds one request count, one observation and, exactly
\* for not_found and handler_error, one error count  (Spec)
C33_EveryDispatchRecorded ==
    /\ [](metricsOn =>
            /\ SumCounters(requestTotal) = PastRecording
            /\ Observations(requestLatency) = PastRecording)
    /\ [][\A r \in Slots : (metricsOn /\ Recording(r)) => RecordsOnce(r)]_vars

----------------------------------------------------------------------------

\* C34: the text rendering has, for every recorded (method, path, status), a
\* request line with exactly these labels, and for every recorded (method,
\* path, error kind) an error line with exactly these labels, for paths that
\* contain an underscore too  (SpecRender)
C34_LabelsExact ==
    Rendered =>
        \A call \in fnOut.calls :
            /\ \E l \in fnOut.text.requests :
                   l.labels = <<call.method, call.path, Itoa(call.status)>>
            /\ call.errorType # <<>> =>
                   \E l \in fnOut.text.errors :
                       l.labels = <<call.method, call.path, call.errorType>>

\* the same for the recorded paths without an underscore
C34_PlainPaths ==
    Rendered =>
        \A call \in {x \in fnOut.calls : \A i \in 1..Len(x.path) : x.path[i] # "_"} :
            /\ \E l \in fnOut.text.requests :
                   l.labels = <<call.method, call.path, Itoa(call.status)>>
            /\ call.errorType # <<>> =>
                   \E l \in fnOut.text.errors :
                       l.labels = <<call.method, call.path, call.errorType>>

----------------------------------------------------------------------------

----------------------------------------------------------------------------

\* the path of request r matches a registered pattern, but no route with the
\* request's method, compared exactly
OtherMethodOnly(r) ==
    /\ \E i \in 1..Len(routes) : matchPath(routes[i].Path, req[r].path).ok
    /\ \A i \in 1..Len(routes) :
           matchPath(routes[i].Path, req[r].path).ok => routes[i].Method # req[r].method

\* C36: a request whose path matches a pattern only under another method
\* (POST /a, get /a, GET /b) finds no route: it is answered 404, no
\* middleware and no handler runs, and it is recorded under (method, path,
\* 404) with the error kind not_found  (SpecMethod)
C36_MethodMismatch ==
    \A r \in Slots :
        (LookedUp(r) /\ OtherMethodOnly(r)) =>
            /\ req[r].route = 0
            /\ req[r].statusCode = StatusNotFound
            /\ req[r].body = ErrorBody("not found")
            /\ req[r].log = <<>>
            /\ req[r].mstatus = StatusNotFound /\ req[r].mkind = NotFoundKind
            /\ req[r].mpath = req[r].path
            /\ req[r].pc \in {"recorded", "done"} =>
                   /\ Count(requestTotal,
                            RequestKey(req[r].method, req[r].path, StatusNotFound)) >= 1
                   /\ Count(errorTotal,
                            ErrorKey(req[r].method, req[r].path, NotFoundKind)) >= 1

\* POST /a, get /a and GET /b were each served and counted as not found
C36_Witness ==
    /\ req[1].pc = "done" /\ OtherMethodOnly(1)
    /\ Count(errorTotal, ErrorKey(POST, <<"/", "a">>, NotFoundKind)) = 1
    /\ Count(errorTotal, ErrorKey(<<"g", "e", "t">>, <<"/", "a">>, NotFoundKind)) = 1
    /\ Count(requestTotal, RequestKey(GET, <<"/", "b">>, StatusNotFound)) = 1

----------------------------------------------------------------------------

\* the pattern of the route, its group's prefix included
UsersPattern == <<"/", "u", "/", ":", "i", "d">>

\* the path under which the recordMetrics call of request r must count: the
\* pattern for /u/1 and /u/2, the request path for the unmatched /x/1
KeyedPath(r) ==
    IF req[r].path \in {<<"/", "u", "/", "1">>, <<"/", "u", "/", "2">>}
    THEN UsersPattern ELSE req[r].path

\* C37: the recordMetrics call of a matched request counts under the route's
\* pattern with its group prefix, so /u/1 and /u/2 share the counter and the
\* latency accumulator of /u/:id, and that of an unmatched request counts
\* under the request path; no other counter and no other accumulator changes
\* (SpecPattern)
C37_KeyedByPattern ==
    [][\A r \in Slots :
          Recording(r) =>
              LET status == IF req[r].route = 0 THEN StatusNotFound ELSE StatusOK
                  key == RequestKey(req[r].method, KeyedPath(r), status)
                  b == LatencyKey(req[r].method, KeyedPath(r)) \o BucketSuffix
              IN  /\ (req[r].route # 0) = (KeyedPath(r) = UsersPattern)
                  /\ Count(requestTotal', key) = Count(requestTotal, key) + 1
                  /\ \A k \in DOMAIN requestTotal' :
                         k # key => Count(requestTotal', k) = Count(requestTotal, k)
                  /\ b \in DOMAIN requestLatency'
                  /\ requestLatency'[b].count =
                         (IF b \in DOMAIN requestLatency THEN requestLatency[b].count ELSE 0) + 1
                  /\ \A k \in DOMAIN requestLatency :
                         k # b => requestLatency'[k] = requestLatency[k]]_vars

\* /u/1 and /u/2 were served: one counter and one accumulator hold both, and
\* no counter is keyed by a concrete path
C37_Witness ==
    /\ req[1].pc = "done" /\ req[1].path = <<"/", "u", "/", "1">>
    /\ req[2].pc = "done" /\ req[2].path = <<"/", "u", "/", "2">>
    /\ DOMAIN requestTotal = {RequestKey(GET, UsersPattern, StatusOK)}
    /\ requestTotal[RequestKey(GET, UsersPattern, StatusOK)] = 2
    /\ requestLatency[LatencyKey(GET, UsersPattern) \o BucketSuffix].count = 2

----------------------------------------------------------------------------

\* the segment of a path /u/<segment>
LastSegment(path) == SubSeq(path, 4, Len(path))

\* C38: a parameter binds whatever the path segment is: /u/:id matches /u/
\* with id = "", and with /u/:id registered before /u/me the requests /u/,
\* /u/me and /u/7 all reach the route /u/:id, whose handler sees the segment
\* as id; /u/me never reaches its own route  (SpecParam)
C38_ParamBindsAnything ==
    /\ matchPath(<<"/", "u", "/", ":", "i", "d">>, <<"/", "u", "/">>) =
           [ok |-> TRUE, params |-> MapPut(EmptyMap, <<"i", "d">>, <<>>)]
    /\ \A r \in Slots :
           (LookedUp(r) /\ Len(req[r].path) >= 3) =>
               /\ req[r].route = 1
               /\ req[r].pc = "built" =>
                      ctxs[req[r].c].Params =
                          MapPut(EmptyMap, <<"i", "d">>, LastSegment(req[r].path))
               /\ req[r].pc \in {"record", "recorded", "done"} =>
                      /\ req[r].log = <<<<"handler", "hParam">>>>
                      /\ req[r].body = DataBody("id", LastSegment(req[r].path))
                      /\ req[r].statusCode = StatusOK

\* /u/ and /u/me were served by the handler of /u/:id, the latter answering
\* with id = "me"
C38_Witness ==
    /\ req[1].pc = "done" /\ req[1].path = <<"/", "u", "/">>
    /\ req[1].route = 1 /\ req[1].body = DataBody("id", <<>>)
    /\ req[2].pc = "done" /\ req[2].path = <<"/", "u", "/", "m", "e">>
    /\ req[2].route = 1 /\ req[2].body = DataBody("id", <<"m", "e">>)
    /\ Count(requestTotal,
             RequestKey(GET, <<"/", "u", "/", ":", "i", "d">>, StatusOK)) = 2

----------------------------------------------------------------------------
(* C39: the transport handle and the logger of pooled and of used contexts *)

\* a context in the pool holds neither a transport handle nor a logger
Detached(c) == ctxs[c].RequestCtx = 0 /\ ctxs[c].Logger = Nil

\* the context of request r holds r's transport handle and the app logger
Attached(r) ==
    /\ req[r].c \in DOMAIN ctxs
    /\ ctxs[req[r].c].RequestCtx = r
    /\ ctxs[req[r].c].Logger = "logger"

\* C39: releaseCtx detaches the transport handle and the logger before the
\* context goes back to the pool, so every context in the pool holds neither;
\* acquireCtx attaches the current request's handle and the app logger, so
\* from acquire to release the context of a request refers to that request's
\* transport handle, whatever request used the context before.
C39_HandleFollowsRequest ==
    /\ \A c \in pool : c \in DOMAIN ctxs /\ Detached(c)
    /\ \A r \in Slots : InFlight(r) => (Attached(r) /\ req[r].c \notin pool)

\* two contexts were used and released; request 2 now runs on the context that
\* request 1 had used, and the other context lies in the pool
C39_Witness ==
    /\ Len(ctxs) = 2 /\ pool = {2} /\ Detached(2)
    /\ req[1].pc = "done" /\ req[1].c = 1
    /\ req[2].pc = "built" /\ req[2].c = 1 /\ Attached(2)

====
